---- MODULE Spec2Model ----
(***************************************************************************)
(* A model of golizer: the spectral analyzer (internal/analyzer), the      *)
(* frame renderer (internal/render) and the tick loop with the web control *)
(* panel (internal/app, internal/web).                                     *)
(*                                                                         *)
(* float64 quantities are fixed-point integers in thousandths (One = 1.0); *)
(* a product or quotient is rounded down to the next thousandth.  The FFT  *)
(* is not computed: a sample block is given by its length and by the three *)
(* band energies that bandEnergy returns for it, each in [0, 1].           *)
(***************************************************************************)
EXTENDS Integers, Sequences, FiniteSets, TLC

VARIABLES
    an,          \* the Analyzer struct
    out,         \* the Features returned by the last Analyze call
    lastIn,      \* the arguments of the last Analyze call
    calls,       \* number of Analyze calls made
    surge,       \* the bass-surge condition held on the last call
    elapsed,     \* deltaTime summed over the calls since the last drop (-1: no drop yet)
    gap,         \* value of elapsed when the last drop was flagged (-1: no earlier drop)
    suppressed,  \* a surge was seen during a cooldown
    callsLeft,   \* exploration budget: Analyze calls left
    variedLeft,  \* exploration budget: calls left that differ from the default call
    ren,         \* the Renderer struct
    noiseOctaves,\* the package-level noise octave count
    frame,       \* the outcome of the last Render call
    asked,       \* what has been asked of the renderer so far
    opsLeft,     \* exploration budget: renderer calls left
    pool,        \* the main goroutine of one Render call
    jobCh,       \* the tile queue
    wg,          \* the WaitGroup counter
    workers,     \* the worker goroutines
    lines,       \* the output slots, one per row
    written,     \* for each row, the workers that wrote its slot, in order
    result,      \* the Frame that Render returned
    mu,          \* a.mu, the RWMutex of the App
    app,         \* the fields of the App that the goroutines share
    tick,        \* the tick loop goroutine: position, locals, what it did
    web,         \* the web server goroutine: position, request, what it saw
    prm,         \* a Parameters value driven directly by ApplyFeatures and UpdateTime
    applied,     \* the arguments of the last ApplyFeatures call
    silentRun,   \* number of ApplyFeatures(Features{}, delta) calls in a row, up to now
    appliesLeft, \* exploration budget: Parameters calls left
    loudLeft,    \* exploration budget: calls with non-silent features left
    capture,     \* the Capture struct: buffer, index, channels
    capMu,       \* c.mu, the RWMutex of the Capture
    callback,    \* the PortAudio callback goroutine running Capture.process
    reader,      \* the goroutine calling Capture.SamplesInto
    stored,      \* the last len(buffer) mono samples stored so far, zeros before them
    fed,         \* number of mono samples handed to the callback so far
    capLeft,     \* exploration budget: blocks and SamplesInto calls left
    run,         \* the goroutine inside App.Run: position, locals, return value
    ctxDone,     \* the context passed to Run has been cancelled
    ticker,      \* ticker.C holds a tick
    keys,        \* a.inputEvents and the keyboard listener goroutine
    stopAt,      \* where Run was when the context was cancelled ("none" before)
    cell,        \* the last cell evaluated: its inputs, brightness and glyph index
    auto,        \* the App fields of the auto-randomizer, the clock and its last check
    win,         \* one sample count with the nextPow2 and window size computed for it
    pa,          \* package audio: initOnce, termOnce, initErr and the PortAudio library
    gate,        \* the noise floor, the Features before and after the gate, the Parameters
    pace,        \* frameStride, skipCounter and what each tick of App.step did
    callers      \* the goroutines calling audio.Initialize and audio.Terminate

anaVars == <<an, out, lastIn, calls, surge, elapsed, gap, suppressed, callsLeft, variedLeft>>

renVars == <<ren, noiseOctaves, frame, asked, opsLeft>>

poolVars == <<pool, jobCh, wg, workers, lines, written, result>>

appVars == <<mu, app, tick, web>>

parVars == <<prm, applied, silentRun, appliesLeft, loudLeft>>

\* the subsystems added after the first four
capVars == <<capture, capMu, callback, reader, stored, fed, capLeft>>

runVars == <<run, ctxDone, ticker, keys, stopAt>>

\* the subsystems added last
lateVars == <<auto, pa, callers, win, gate, pace>>

extraVars == <<parVars, capVars, runVars, cell, lateVars>>

vars == <<anaVars, renVars, poolVars, appVars, extraVars>>

-----------------------------------------------------------------------------
(* Bounds of the exploration.                                              *)

MaxCalls == 6
MaxRingCalls == 26
MaxVaried == 1
MaxDim == 3
MaxOps == 3
MaxHeight == 9
MaxProcs == 2
MaxTicks == 2
MaxRequests == 1
MaxApplies == 7
MaxBuf == 3
MaxBlocks == 3
MaxReads == 2
MaxKeys == 2
MaxTiles == 2
MaxClock == 6
MaxSettings == 2
MaxCallers == 2
MaxAudioCalls == 3
MaxSamples == 2100
MaxGated == 2
MaxPaceTicks == 6

-----------------------------------------------------------------------------
(* internal/analyzer                                                       *)

One == 1000

DefaultHistorySize == 60
MinBassHistory == 24
MaxWindow == 2048
MinWindow == 256
DropCooldownSeconds == 1000

Min(a, b) == IF a < b THEN a ELSE b
max(a, b) == IF a > b THEN a ELSE b

ZeroFeatures ==
    [Bass |-> 0, Mid |-> 0, Treble |-> 0, Overall |-> 0, BeatStrength |-> 0, IsDrop |-> FALSE]

RECURSIVE BitOr(_, _)
BitOr(a, b) ==
    IF a = 0 THEN b
    ELSE IF b = 0 THEN a
    ELSE (IF a % 2 = 1 \/ b % 2 = 1 THEN 1 ELSE 0) + 2 * BitOr(a \div 2, b \div 2)

ShiftRight(n, k) == n \div (2 ^ k)

\* nextPow2 without the decrement before the bits are smeared
nextPow2NoDecrement(n) ==
    IF n <= 0 THEN 1
    ELSE LET n0 == n
             n1 == BitOr(n0, ShiftRight(n0, 1))
             n2 == BitOr(n1, ShiftRight(n1, 2))
             n3 == BitOr(n2, ShiftRight(n2, 4))
             n4 == BitOr(n3, ShiftRight(n3, 8))
             n5 == BitOr(n4, ShiftRight(n4, 16))
         IN  n5 + 1

nextPow2(n) ==
    IF n <= 0 THEN 1
    ELSE LET n0 == n - 1
             n1 == BitOr(n0, ShiftRight(n0, 1))
             n2 == BitOr(n1, ShiftRight(n1, 2))
             n3 == BitOr(n2, ShiftRight(n2, 4))
             n4 == BitOr(n3, ShiftRight(n3, 8))
             n5 == BitOr(n4, ShiftRight(n4, 16))
         IN  n5 + 1

\* clamp without its lower bound
clampNoFloor(v, minVal, maxVal) ==
    IF v > maxVal THEN maxVal ELSE v

clamp(v, minVal, maxVal) ==
    IF v < minVal THEN minVal
    ELSE IF v > maxVal THEN maxVal
    ELSE v

RECURSIVE SumSeq(_)
SumSeq(s) == IF s = <<>> THEN 0 ELSE Head(s) + SumSeq(Tail(s))

average(values) ==
    IF Len(values) = 0 THEN 0 ELSE SumSeq(values) \div Len(values)

\* an envelope that jumps past a louder input instead of approaching it
envelopeOvershoot(current, input, attack, release) ==
    IF input > current
    THEN current + input
    ELSE (current * release) \div 100

\* attack and release are given in hundredths
envelope(current, input, attack, release) ==
    IF input > current
    THEN (current * attack + input * (100 - attack)) \div 100
    ELSE (current * release) \div 100

\* math.Pow(ratio, 0.7): linear interpolation between exact values, ratio in 0..100
PowTable ==
    << <<0, 0>>, <<1, 8>>, <<10, 40>>, <<50, 123>>, <<100, 200>>, <<200, 324>>,
       <<300, 431>>, <<500, 616>>, <<700, 779>>, <<850, 892>>, <<1000, 1000>>,
       <<2000, 1625>>, <<5000, 3085>>, <<10000, 5012>>, <<20000, 8142>>,
       <<50000, 15462>>, <<100000, 25119>> >>

Pow07(ratio) ==
    IF ratio >= PowTable[Len(PowTable)][1] THEN PowTable[Len(PowTable)][2]
    ELSE LET i == CHOOSE k \in 1..(Len(PowTable) - 1) :
                      PowTable[k][1] <= ratio /\ ratio < PowTable[k + 1][1]
             lo == PowTable[i]
             hi == PowTable[i + 1]
         IN  lo[2] + ((ratio - lo[1]) * (hi[2] - lo[2])) \div (hi[1] - lo[1])

dynamics(value, peak) ==
    IF peak < 10 THEN value
    ELSE LET ratio0 == (value * One) \div peak
             ratio == IF ratio0 < 0 THEN 0 ELSE ratio0
             expanded0 == (Pow07(ratio) * peak) \div One
             expanded == IF ratio > 850
                         THEN (expanded0 * (One + (ratio - 850) * 2)) \div One
                         ELSE expanded0
         IN  IF expanded > One THEN One ELSE expanded

PushRingDropNewest(hist, value, capacity) ==
    IF Len(hist) >= capacity THEN hist ELSE Append(hist, value)

\* append, then shift left by one and drop the last slot when over capacity
PushRing(hist, value, capacity) ==
    LET grown == Append(hist, value)
    IN  IF Len(grown) > capacity
        THEN [i \in 1..(Len(grown) - 1) |-> grown[i + 1]]
        ELSE grown

BassCapacity(historySize) == max(MinBassHistory, historySize \div 2)

pushBass(hist, value, historySize) == PushRing(hist, value, BassCapacity(historySize))

pushEnergy(hist, value, historySize) == PushRing(hist, value, historySize)

RECURSIVE SqrtSearch(_, _, _)
SqrtSearch(v, lo, hi) ==
    IF lo >= hi THEN lo
    ELSE LET mid == (lo + hi + 1) \div 2
         IN  IF mid * mid <= v THEN SqrtSearch(v, mid, hi) ELSE SqrtSearch(v, lo, mid - 1)

\* math.Sqrt of a value given in millionths, result in thousandths
Sqrt(v) == SqrtSearch(v, 0, 2 * One)

RECURSIVE SumSquares(_, _)
SumSquares(s, mean) ==
    IF s = <<>> THEN 0
    ELSE (Head(s) - mean) * (Head(s) - mean) + SumSquares(Tail(s), mean)

energyVariance(energyHist) ==
    IF Len(energyHist) < 10 THEN 0
    ELSE LET mean == average(energyHist)
             variance == SumSquares(energyHist, mean) \div Len(energyHist)
         IN  Min(One, Sqrt(variance))

AnalyzerNew(cfgHistorySize) ==
    LET historySize == IF cfgHistorySize <= 0 THEN DefaultHistorySize ELSE cfgHistorySize
    IN  [bassPeak |-> 0, midPeak |-> 0, treblePeak |-> 0, beatPulse |-> 0, lastBass |-> 0,
         bassHistory |-> <<>>, energyHist |-> <<>>, dropCooldown |-> 0,
         historySize |-> historySize, bufferLen |-> 0, windowLen |-> 0]

IsEmptyAlwaysFalse(blk) == FALSE

\* len(samples) == 0
IsEmpty(blk) == blk.n = 0

CooldownOverAlways(cooldown) == TRUE

\* a.dropCooldown <= 0
CooldownOver(cooldown) == cooldown <= 0

\* a running cooldown that grows by deltaTime instead of shrinking
cooldownStepGrows(cooldown, surging, dt) ==
    IF CooldownOver(cooldown)
    THEN (IF surging THEN DropCooldownSeconds ELSE cooldown)
    ELSE cooldown + dt

\* the if/else on a.dropCooldown: reset to 1.0 on a drop, else count down
cooldownStep(cooldown, surging, dt) ==
    IF CooldownOver(cooldown)
    THEN (IF surging THEN DropCooldownSeconds ELSE cooldown)
    ELSE cooldown - dt

\* the average taken over the history as it was before the current bass was pushed
SurgeConditionBeforePush(bassHistory, bass, bassDiff) ==
    LET earlier == SubSeq(bassHistory, 1, Len(bassHistory) - 1)
    IN  /\ SumSeq(earlier) > 0
        /\ bass * Len(earlier) > 2 * SumSeq(earlier)
        /\ bassDiff > 100

\* avg > 0 && bass > avg*2.0 && bassDiff > 0.1, the average taken exactly
SurgeCondition(bassHistory, bass, bassDiff) ==
    /\ SumSeq(bassHistory) > 0
    /\ bass * Len(bassHistory) > 2 * SumSeq(bassHistory)
    /\ bassDiff > 100

\* the pulse decays first and is latched afterwards
latchPulseAfterDecay(pulse, beatStrength) ==
    IF beatStrength > 120 THEN One ELSE (pulse * 88) \div 100

\* if beatStrength > 0.12 { a.beatPulse = 1.0 }; a.beatPulse *= 0.88
latchPulse(pulse, beatStrength) ==
    LET latched == IF beatStrength > 120 THEN One ELSE pulse
    IN  (latched * 88) \div 100

\* the analysis window of Analyze for len(samples) = n
windowSize(n) ==
    LET size == nextPow2(Min(n, MaxWindow))
    IN  IF size < MinWindow THEN MinWindow ELSE size

\* Analyze on a non-empty block: the new Analyzer, the Features and the surge condition
AnalyzeBlock(a, blk, dt) ==
    LET size == windowSize(blk.n)
        bass == blk.bass
        mid == blk.mid
        treble == blk.treble
        bassPeak == envelope(a.bassPeak, bass, 94, 75)
        midPeak == envelope(a.midPeak, mid, 94, 78)
        treblePeak == envelope(a.treblePeak, treble, 94, 80)
        bassOut == dynamics(bass, bassPeak)
        midOut == dynamics(mid, midPeak)
        trebleOut == dynamics(treble, treblePeak)
        overall == (bassOut + midOut + trebleOut) \div 3
        energyHist == pushEnergy(a.energyHist, overall, a.historySize)
        variance == energyVariance(energyHist)
        bassDiff == bass - a.lastBass
        beat0 == clamp(bassDiff * 14, 0, One)
        beatPulse == latchPulse(a.beatPulse, beat0)
        beatStrength == Min(One, beat0 + (beatPulse * 7) \div 10)
        bassHistory == pushBass(a.bassHistory, bass, a.historySize)
        cooled == CooldownOver(a.dropCooldown)
        surging == SurgeCondition(bassHistory, bass, bassDiff)
        isDrop == cooled /\ surging
        dropCooldown == cooldownStep(a.dropCooldown, surging, dt)
        varianceMultiplier == One + (variance * 65) \div 100
    IN  [an |-> [bassPeak |-> bassPeak, midPeak |-> midPeak, treblePeak |-> treblePeak,
                 beatPulse |-> beatPulse, lastBass |-> bass,
                 bassHistory |-> bassHistory, energyHist |-> energyHist,
                 dropCooldown |-> dropCooldown, historySize |-> a.historySize,
                 bufferLen |-> size, windowLen |-> size],
         out |-> [Bass |-> Min(One, (bassOut * varianceMultiplier) \div One),
                  Mid |-> Min(One, (midOut * varianceMultiplier) \div One),
                  Treble |-> Min(One, (trebleOut * varianceMultiplier) \div One),
                  Overall |-> Min(One, (overall * varianceMultiplier) \div One),
                  BeatStrength |-> beatStrength,
                  IsDrop |-> isDrop],
         surge |-> surging]

Analyze(a, blk, dt) ==
    IF IsEmpty(blk)
    THEN [an |-> a, out |-> ZeroFeatures, surge |-> FALSE]
    ELSE AnalyzeBlock(a, blk, dt)

-----------------------------------------------------------------------------
(* Inputs of the analyzer.                                                  *)

EmptyBlock == [n |-> 0, bass |-> 0, mid |-> 0, treble |-> 0]
QuietBlock == [n |-> 100, bass |-> 10, mid |-> 0, treble |-> 5]
LoudBlock == [n |-> 2048, bass |-> 300, mid |-> 400, treble |-> 200]
PeakBlock == [n |-> 5000, bass |-> 1000, mid |-> 1000, treble |-> 40]

Blocks == {EmptyBlock, QuietBlock, LoudBlock, PeakBlock}

\* deltaTime in thousandths of a second; step() never passes delta <= 0
Deltas == {500, 1000}

\* the calls explored: every block with the short delta, the quiet and the empty
\* block also with the long one
Calls == {[blk |-> b, dt |-> d] : b \in Blocks, d \in Deltas}
             \ {[blk |-> LoudBlock, dt |-> 1000], [blk |-> PeakBlock, dt |-> 1000]}

DefaultCall == [blk |-> QuietBlock, dt |-> 500]

NoCall == [blk |-> EmptyBlock, dt |-> 0]

AnaInit(historySizes, nCalls, nVaried) ==
    /\ an \in {AnalyzerNew(h) : h \in historySizes}
    /\ out = ZeroFeatures
    /\ lastIn = NoCall
    /\ calls = 0
    /\ surge = FALSE
    /\ elapsed = -1
    /\ gap = -1
    /\ suppressed = FALSE
    /\ callsLeft = nCalls
    /\ variedLeft = nVaried

AnaIdle == AnaInit({0}, 0, 0)

\* one call a.Analyze(samples, deltaTime)
AnalyzeCall ==
    /\ callsLeft > 0
    /\ \E call \in Calls :
        LET blk == call.blk
            dt == call.dt
            res == Analyze(an, blk, dt)
        IN  /\ call # DefaultCall => variedLeft > 0
            /\ callsLeft' = callsLeft - 1
            /\ variedLeft' = IF call # DefaultCall THEN variedLeft - 1 ELSE variedLeft
            /\ an' = res.an
            /\ out' = res.out
            /\ surge' = res.surge
            /\ lastIn' = call
            /\ calls' = calls + 1
            /\ elapsed' = IF res.out.IsDrop THEN 0
                          ELSE IF elapsed < 0 THEN elapsed
                          ELSE Min(elapsed + dt, 2 * DropCooldownSeconds)
            /\ gap' = IF res.out.IsDrop THEN elapsed ELSE gap
            /\ suppressed' = (suppressed \/ (res.surge /\ ~res.out.IsDrop /\ elapsed >= 0))

-----------------------------------------------------------------------------
(* internal/render: the Renderer, its configuration and one Render call.   *)
(* The pattern functions and the colour maths are not computed: a cell's   *)
(* pixelResult is a fixed function of the pattern, the cell and the time.  *)

Nil == "nil"

colorModeChromatic == "chromatic"
colorModeFire == "fire"
colorModeAurora == "aurora"
colorModeMono == "mono"
ColorModes == {colorModeChromatic, colorModeFire, colorModeAurora, colorModeMono}

qualityHigh == "high"
qualityBalanced == "balanced"
qualityEco == "eco"
QualityModes == {qualityHigh, qualityBalanced, qualityEco}

\* strings.ToLower on the names the model passes in
ToLower(s) ==
    CASE s = "Ripple" -> "ripple"
      [] s = "FIRE" -> "fire"
      [] s = "ECO" -> "eco"
      [] OTHER -> s

patternRegistry ==
    [flash     |-> [fn |-> "patternFlash", detailMix |-> 0],
     spark     |-> [fn |-> "patternSpark", detailMix |-> 100],
     scatter   |-> [fn |-> "patternScatter", detailMix |-> 0],
     beam      |-> [fn |-> "patternBeam", detailMix |-> 0],
     ripple    |-> [fn |-> "patternRipple", detailMix |-> 100],
     laser     |-> [fn |-> "patternLaser", detailMix |-> 0],
     orbit     |-> [fn |-> "patternOrbit", detailMix |-> 0],
     explosion |-> [fn |-> "patternExplosion", detailMix |-> 100],
     rings     |-> [fn |-> "patternRings", detailMix |-> 0],
     zigzag    |-> [fn |-> "patternZigzag", detailMix |-> 0],
     cross     |-> [fn |-> "patternCross", detailMix |-> 0],
     spiral    |-> [fn |-> "patternSpiral", detailMix |-> 100],
     star      |-> [fn |-> "patternStar", detailMix |-> 0],
     tunnel    |-> [fn |-> "patternTunnel", detailMix |-> 100],
     neurons   |-> [fn |-> "patternNeurons", detailMix |-> 0],
     fractal   |-> [fn |-> "patternFractal", detailMix |-> 100]]

PatternNames == DOMAIN patternRegistry

PatternFuncs == {patternRegistry[n].fn : n \in PatternNames}

\* patternRegistry[key] of a Go map: the zero patternEntry for a missing key
RegistryEntry(key) ==
    IF key \in PatternNames THEN patternRegistry[key]
    ELSE [fn |-> Nil, detailMix |-> 0]

PaletteLen ==
    [defaultPalette |-> 112, boxPalette |-> 31, linesPalette |-> 40, sparkPalette |-> 28]

Palette(name) ==
    CASE name = "box" -> "boxPalette"
      [] name = "lines" -> "linesPalette"
      [] name = "spark" -> "sparkPalette"
      [] OTHER -> "defaultPalette"

PaletteNames == {"default", "box", "lines", "spark"}

parseColorMode(name) ==
    LET n == ToLower(name)
    IN  CASE n = "fire" -> colorModeFire
          [] n \in {"aurora", "cool"} -> colorModeAurora
          [] n \in {"mono", "monochrome", "bw", "gray"} -> colorModeMono
          [] OTHER -> colorModeChromatic

\* parseQualityMode with the highest preset as its default
parseQualityModeDefaultHigh(name) ==
    LET n == ToLower(name)
    IN  CASE n \in {"eco", "low", "pi"} -> qualityEco
          [] n \in {"balanced", "medium", "mid"} -> qualityBalanced
          [] OTHER -> qualityHigh

parseQualityMode(name) ==
    LET n == ToLower(name)
    IN  CASE n \in {"eco", "low", "pi"} -> qualityEco
          [] n \in {"balanced", "medium", "mid"} -> qualityBalanced
          [] n \in {"high", "full", "max"} -> qualityHigh
          [] OTHER -> qualityBalanced

setNoiseProfile(mode) ==
    CASE mode = qualityEco -> 1
      [] mode = qualityBalanced -> 2
      [] OTHER -> 4

\* the zero value of the Renderer struct
ZeroRenderer ==
    [mode |-> "ascii", width |-> 0, height |-> 0,
     palette |-> Nil, paletteName |-> "",
     pattern |-> Nil, patternName |-> "", detailMix |-> 0,
     colorMode |-> "", quality |-> "",
     colorOnAudio |-> FALSE, useANSI |-> FALSE,
     xCoords |-> 0, yCoords |-> 0]

Configure(r, paletteName, patternName, colorModeName, colorOnAudio) ==
    LET pal == IF paletteName = "" THEN "default" ELSE paletteName
        lower == ToLower(patternName)
        key == IF lower = "" THEN "plasma" ELSE lower
        def == RegistryEntry("plasma")
    IN  [r EXCEPT
            !.palette = Palette(pal),
            !.paletteName = pal,
            !.pattern = IF key \in PatternNames THEN patternRegistry[key].fn ELSE def.fn,
            !.patternName = IF key \in PatternNames THEN key ELSE "plasma",
            !.detailMix = IF key \in PatternNames THEN patternRegistry[key].detailMix
                          ELSE def.detailMix,
            !.colorMode = parseColorMode(colorModeName),
            !.colorOnAudio = colorOnAudio]

SetQuality(r, name) ==
    LET n == IF name = "" THEN qualityBalanced ELSE name
    IN  [r EXCEPT !.quality = parseQualityMode(n)]

Resize(r, width, height) ==
    LET w == IF width > 0 THEN width ELSE r.width
        h == IF height > 0 THEN height ELSE r.height
        changed == w # r.width \/ h # r.height
    IN  [r EXCEPT !.width = w, !.height = h,
                  !.xCoords = IF changed THEN 0 ELSE @,
                  !.yCoords = IF changed THEN 0 ELSE @]

\* the lengths of r.xCoords and r.yCoords after ensureCoordinateCache(width, height)
ensureCoordinateCache(r, width, height) ==
    [r EXCEPT !.xCoords = width, !.yCoords = height]

clampInt(v, lo, hi) == IF v < lo THEN lo ELSE IF v > hi THEN hi ELSE v

\* the pixelResult of one cell: glyphValue and, with h = 0 and s = 0, the value v
evaluatePixel(pattern, x, y, t) ==
    [glyphValue |-> ((x + 1) * (y + 2) * 211 + 97 * t) % (One + 1),
     v |-> (((x \div 2) + y + t) % 3) * (One \div 2)]

\* hsvToANSI for s = 0: the grayscale ramp 232 + round(v * 23)
hsvToANSI(v) == 232 + clampInt((v * 23 + One \div 2) \div One, 0, 23)

\* clampInt(int(res.glyphValue*float64(len(r.palette)-1)+0.5), 0, len(r.palette)-1)
glyphIndex(glyphValue, n) ==
    clampInt((glyphValue * (n - 1) + One \div 2) \div One, 0, n - 1)

samplePixel(r, x, y, t) ==
    LET res == evaluatePixel(r.pattern, x, y, t)
        n == PaletteLen[r.palette]
        index == glyphIndex(res.glyphValue, n)
    IN  [palette |-> r.palette, index |-> index,
         fg |-> IF r.useANSI THEN hsvToANSI(res.v) ELSE 15]

ColorToken(fg) == [k |-> "color", a |-> clampInt(fg, 0, 255), p |-> ""]
GlyphToken(px) == [k |-> "glyph", a |-> px.index, p |-> px.palette]
ResetToken == [k |-> "reset", a |-> 0, p |-> ""]

\* builder.Reset() at the start of a row: left out
BuilderResetKeep(builder) == builder

\* builder.Reset() at the start of a row
BuilderReset(builder) == <<>>

\* the cell loop of one row: colour code on a colour change, then the glyph
RECURSIVE RowLoop(_, _, _, _, _, _, _)
RowLoop(r, y, t, x, width, builder, lastColor) ==
    IF x >= width THEN builder
    ELSE LET px == samplePixel(r, x, y, t)
             coloured == IF r.useANSI /\ px.fg # lastColor
                         THEN Append(builder, ColorToken(px.fg))
                         ELSE builder
             last == IF r.useANSI /\ px.fg # lastColor THEN px.fg ELSE lastColor
         IN  RowLoop(r, y, t, x + 1, width, Append(coloured, GlyphToken(px)), last)

\* one row of a tile: the worker's builder after the row; lines[y] is its content
RenderRow(r, y, t, width, builder) ==
    LET cells == RowLoop(r, y, t, 0, width, BuilderReset(builder), -1)
    IN  IF r.useANSI THEN Append(cells, ResetToken) ELSE cells

NoFrame == [result |-> "none", Lines |-> <<>>, Status |-> ""]
EmptyFrame == [result |-> "returned", Lines |-> <<>>, Status |-> ""]
PanicFrame == [result |-> "panic", Lines |-> <<>>, Status |-> ""]

\* Render(p, feat, fps) as one step; t stands for the parameters and features.
\* Every row is written by one worker of the pool, from a builder it has reset.
Render(r, t) ==
    IF r.width <= 0 \/ r.height <= 0 THEN [ren |-> r, frame |-> EmptyFrame]
    ELSE LET width == r.width
             height == r.height
             cached == ensureCoordinateCache(r, width, height)
         IN  IF cached.pattern = Nil \/ cached.xCoords < width \/ cached.yCoords < height
             THEN [ren |-> cached, frame |-> PanicFrame]
             ELSE [ren |-> cached,
                   frame |-> [result |-> "returned",
                              Lines |-> [i \in 1..cached.height |->
                                            RenderRow(cached, i - 1, t, width, <<>>)],
                              Status |-> "status"]]

NewWithBackend(width, height, paletteName, patternName, colorModeName, qualityName, colorOnAudio, useANSI) ==
    LET r == [ZeroRenderer EXCEPT !.width = width, !.height = height, !.useANSI = useANSI]
    IN  Configure(SetQuality(r, qualityName), paletteName, patternName, colorModeName,
                  colorOnAudio)

DimArgs == {-1, 0, 1, MaxDim}
PatternArgs == {"", "Ripple", "flash", "nosuch"}
PaletteArgs == {"", "box", "nosuch"}
ColorModeArgs == {"FIRE", "nosuch"}
QualityArgs == {"", "ECO", "high", "nosuch"}
TimeArgs == {0, 1}

NotAsked ==
    [constructed |-> FALSE, configured |-> FALSE, lastOp |-> "none",
     reqW |-> 0, reqH |-> 0, resizes |-> 0, t |-> 0, qualityName |-> ""]

RenIdle ==
    /\ ren = ZeroRenderer
    /\ noiseOctaves = 4
    /\ frame = NoFrame
    /\ asked = NotAsked
    /\ opsLeft = 0

RenInit ==
    /\ ren = ZeroRenderer
    /\ noiseOctaves = 4
    /\ frame = NoFrame
    /\ asked = NotAsked
    /\ opsLeft = MaxOps

\* render.New / render.NewWithBackend: an error for a non-positive dimension.
\* Configure, SetQuality and Resize are called on the renderer it returned; Render
\* is also called on the zero Renderer, the only one with a non-positive dimension.
NewCall ==
    /\ opsLeft > 0
    /\ ~asked.constructed
    /\ \E width \in DimArgs, height \in DimArgs, patternName \in PatternArgs,
          qualityName \in {"", "ECO"}, useANSI \in BOOLEAN :
        /\ opsLeft' = opsLeft - 1
        /\ frame' = frame
        /\ IF width <= 0 \/ height <= 0
           THEN /\ ren' = ren
                /\ noiseOctaves' = noiseOctaves
                /\ asked' = [asked EXCEPT !.lastOp = "NewError"]
           ELSE LET r == NewWithBackend(width, height, "", patternName, "FIRE",
                                        qualityName, FALSE, useANSI)
                IN  /\ ren' = r
                    /\ noiseOctaves' = setNoiseProfile(r.quality)
                    /\ asked' = [asked EXCEPT !.constructed = TRUE, !.configured = TRUE,
                                            !.lastOp = "New",
                                            !.reqW = width, !.reqH = height,
                                            !.qualityName = qualityName]

ConfigureCall ==
    /\ opsLeft > 0
    /\ asked.constructed
    /\ \E paletteName \in PaletteArgs, patternName \in PatternArgs,
          colorModeName \in ColorModeArgs, colorOnAudio \in BOOLEAN :
        /\ opsLeft' = opsLeft - 1
        /\ ren' = Configure(ren, paletteName, patternName, colorModeName, colorOnAudio)
        /\ asked' = [asked EXCEPT !.lastOp = "Configure", !.configured = TRUE]
        /\ UNCHANGED <<noiseOctaves, frame>>

SetQualityCall ==
    /\ opsLeft > 0
    /\ asked.constructed
    /\ \E name \in QualityArgs :
        /\ opsLeft' = opsLeft - 1
        /\ ren' = SetQuality(ren, name)
        /\ noiseOctaves' = setNoiseProfile(ren'.quality)
        /\ asked' = [asked EXCEPT !.lastOp = "SetQuality", !.qualityName = name]
        /\ UNCHANGED frame

ResizeCall ==
    /\ opsLeft > 0
    /\ asked.constructed
    /\ \E width \in DimArgs, height \in DimArgs :
        /\ opsLeft' = opsLeft - 1
        /\ ren' = Resize(ren, width, height)
        /\ asked' = [asked EXCEPT !.lastOp = "Resize",
                                !.reqW = IF width > 0 THEN width ELSE @,
                                !.reqH = IF height > 0 THEN height ELSE @,
                                !.resizes = Min(@ + 1, 2)]
        /\ UNCHANGED <<noiseOctaves, frame>>

RenderCall ==
    /\ opsLeft > 0
    /\ \E t \in TimeArgs :
        LET res == Render(ren, t)
        IN  /\ opsLeft' = opsLeft - 1
            /\ ren' = res.ren
            /\ frame' = res.frame
            /\ asked' = [asked EXCEPT !.lastOp = "Render", !.t = t]
            /\ UNCHANGED noiseOctaves

-----------------------------------------------------------------------------
(* internal/render: the worker pool inside one Render call, step by step.  *)
(* The main goroutine spawns the workers, queues the tiles, closes the     *)
(* queue and waits; a worker takes a tile, renders its rows one by one     *)
(* into lines[y] and leaves when the queue is closed and empty.            *)

TileHeight == 4

\* the end of a tile, one row too far
TileEndOverlap(start, tileHeight, height) == Min(start + tileHeight + 1, height)

\* end := start + tileHeight; if end > height { end = height }
TileEnd(start, tileHeight, height) == Min(start + tileHeight, height)

\* numWorkers: GOMAXPROCS capped by the height, at least 1
NumWorkers(procs, height) == max(1, Min(procs, height))

TileCount(height, tileHeight) == (height + tileHeight - 1) \div tileHeight

WorkerIds == 1..MaxProcs

IdleWorker == [pc |-> "none", start |-> 0, end |-> 0, y |-> 0, builder |-> <<>>]

\* the state of Render when it reaches the spawn loop
PoolStart(r, t, procs) ==
    LET height == r.height
        tileHeight == Min(TileHeight, height)
    IN  /\ pool = [pc |-> "spawn", r |-> ensureCoordinateCache(r, r.width, r.height),
                   t |-> t, width |-> r.width, height |-> height,
                   numWorkers |-> NumWorkers(procs, height),
                   tileHeight |-> tileHeight,
                   spawned |-> 0, start |-> 0]
        /\ jobCh = [buf |-> <<>>, cap |-> TileCount(height, tileHeight), closed |-> FALSE]
        /\ wg = 0
        /\ workers = [w \in WorkerIds |-> IdleWorker]
        /\ lines = [y \in 0..(r.height - 1) |-> <<>>]
        /\ written = [y \in 0..(r.height - 1) |-> <<>>]
        /\ result = NoFrame

PoolIdle ==
    /\ pool = [pc |-> "idle"]
    /\ jobCh = [buf |-> <<>>, cap |-> 0, closed |-> FALSE]
    /\ wg = 0
    /\ workers = [w \in WorkerIds |-> IdleWorker]
    /\ lines = <<>>
    /\ written = <<>>
    /\ result = NoFrame

Heights == {1, 3, MaxHeight}

\* plain text one cell wide, or coloured text MaxDim cells wide
Widths == {[width |-> 1, useANSI |-> FALSE], [width |-> MaxDim, useANSI |-> TRUE]}

PoolInit ==
    \E w \in Widths, height \in Heights, procs \in 1..MaxProcs :
        PoolStart(NewWithBackend(w.width, height, "", "ripple", "FIRE", "", FALSE, w.useANSI),
                  0, procs)

\* wg.Add(1); go func() { ... }()
Spawn ==
    /\ pool.pc = "spawn"
    /\ pool.spawned < pool.numWorkers
    /\ wg' = wg + 1
    /\ workers' = [workers EXCEPT ![pool.spawned + 1].pc = "recv"]
    /\ pool' = [pool EXCEPT !.spawned = @ + 1,
                            !.pc = IF pool.spawned + 1 < pool.numWorkers
                                   THEN "spawn" ELSE "produce"]
    /\ UNCHANGED <<jobCh, lines, written, result>>

\* jobCh <- tile{start, end}: blocks while the buffer is full
Produce ==
    /\ pool.pc = "produce"
    /\ pool.start < pool.height
    /\ Len(jobCh.buf) < jobCh.cap
    /\ jobCh' = [jobCh EXCEPT !.buf = Append(@,
                    [start |-> pool.start,
                     end |-> TileEnd(pool.start, pool.tileHeight, pool.height)])]
    /\ pool' = [pool EXCEPT !.start = @ + pool.tileHeight]
    /\ UNCHANGED <<wg, workers, lines, written, result>>

\* close(jobCh)
Close ==
    /\ pool.pc = "produce"
    /\ pool.start >= pool.height
    /\ jobCh' = [jobCh EXCEPT !.closed = TRUE]
    /\ pool' = [pool EXCEPT !.pc = "wait"]
    /\ UNCHANGED <<wg, workers, lines, written, result>>

\* wg.Wait(), buildStatus and the return of the Frame
WaitAndReturn ==
    /\ pool.pc = "wait"
    /\ wg = 0
    /\ pool' = [pool EXCEPT !.pc = "done"]
    /\ result' = [result |-> "returned",
                  Lines |-> [i \in 1..pool.height |-> lines[i - 1]],
                  Status |-> "status"]
    /\ UNCHANGED <<jobCh, wg, workers, lines, written>>

\* for t := range jobCh: the next tile
Receive(w) ==
    /\ workers[w].pc = "recv"
    /\ jobCh.buf # <<>>
    /\ LET tile == Head(jobCh.buf)
       IN  workers' = [workers EXCEPT ![w].start = tile.start, ![w].end = tile.end,
                                      ![w].y = tile.start,
                                      ![w].pc = IF tile.start < tile.end
                                                THEN "rows" ELSE "recv"]
    /\ jobCh' = [jobCh EXCEPT !.buf = Tail(@)]
    /\ UNCHANGED <<pool, wg, lines, written, result>>

\* one row of the tile: the cells into the builder, then lines[y] = builder.String()
Row(w) ==
    /\ workers[w].pc = "rows"
    /\ LET y == workers[w].y
           built == RenderRow(pool.r, y, pool.t, pool.width, workers[w].builder)
       IN  /\ y \in DOMAIN lines
           /\ lines' = [lines EXCEPT ![y] = built]
           /\ written' = [written EXCEPT ![y] = Append(@, w)]
           /\ workers' = [workers EXCEPT ![w].builder = built,
                                         ![w].y = y + 1,
                                         ![w].pc = IF y + 1 < workers[w].end
                                                   THEN "rows" ELSE "recv"]
    /\ UNCHANGED <<pool, jobCh, wg, result>>

\* the range loop ends on the closed, drained queue; the deferred wg.Done() runs
Exit(w) ==
    /\ workers[w].pc = "recv"
    /\ jobCh.buf = <<>>
    /\ jobCh.closed
    /\ workers' = [workers EXCEPT ![w].pc = "done"]
    /\ wg' = wg - 1
    /\ UNCHANGED <<pool, jobCh, lines, written, result>>


-----------------------------------------------------------------------------
(* internal/params: the Parameters that the claims below speak of (Time,   *)
(* Speed, Amplitude and the two influences that feed them).                *)

Mul(a, b) == (a * b) \div One

lerp(current, target, factor) == Mul(current, One - factor) + Mul(target, factor)

maxFloat(a, b) == IF a > b THEN a ELSE b

RECURSIVE PowInt(_, _)
PowInt(base, n) == IF n <= 0 THEN One ELSE Mul(base, PowInt(base, n - 1))

\* math.Pow(base, delta*60) for a delta that is a whole number of sixtieths
DecayPow(base, delta) == PowInt(base, (delta * 60) \div One)

Defaults ==
    [Time |-> 0, Speed |-> 50, Amplitude |-> 0, BassInfluence |-> 900, TrebleInfluence |-> 80,
     Brightness |-> 0, NoiseStrength |-> 0, DistortAmplitude |-> 0,
     BeatSensitivity |-> 1200, BeatDistortion |-> 0, BeatZoom |-> 0,
     LastEffectTime |-> -100 * One * One]

\* an UpdateTime that also writes Speed
UpdateTimeAndSpeed(p, delta) ==
    [p EXCEPT !.Time = @ + delta * p.Speed, !.Speed = @ + delta]

\* p.Time += delta * p.Speed.  Time and LastEffectTime are counted in
\* millionths, so that the product of delta and Speed, both in thousandths,
\* is added without rounding
UpdateTime(p, delta) == [p EXCEPT !.Time = @ + delta * p.Speed]

applySilenceDecay(p, delta) ==
    LET fastDecay == DecayPow(750, delta)
        superFastDecay == DecayPow(500, delta)
    IN  [p EXCEPT !.Amplitude = Mul(@, fastDecay),
                  !.NoiseStrength = Mul(@, superFastDecay),
                  !.Speed = Mul(@, fastDecay),
                  !.Brightness = Mul(@, superFastDecay),
                  !.BeatDistortion = Mul(@, superFastDecay),
                  !.BeatZoom = Mul(@, superFastDecay),
                  !.DistortAmplitude = Mul(@, superFastDecay)]

\* a silence test with the comparison inverted
IsSilentInverted(feat) == feat # ZeroFeatures

\* feat == (analyzer.Features{})
IsSilent(feat) == feat = ZeroFeatures

\* a reaction in which a beat hides a drop
effectEventBeatFirst(p, feat) ==
    LET threshold == (160 * One) \div maxFloat(100, p.BeatSensitivity)
    IN  IF feat.BeatStrength > threshold THEN "beat"
        ELSE IF feat.IsDrop THEN "drop"
        ELSE "none"

\* which branch of "if feat.IsDrop {...} else {... if feat.BeatStrength > threshold {...}}" runs
effectEvent(p, feat) ==
    LET threshold == (160 * One) \div maxFloat(100, p.BeatSensitivity)
    IN  IF feat.IsDrop THEN "drop"
        ELSE IF feat.BeatStrength > threshold THEN "beat"
        ELSE "none"

ApplyFeatures(p, feat, delta) ==
    IF IsSilent(feat) THEN applySilenceDecay(p, delta)
    ELSE LET energy == maxFloat(50, Mul(feat.Bass, 700) + Mul(feat.Mid, 200)
                                    + Mul(feat.Treble, 100))
             bassMultiplier == One + Mul(Mul(feat.Bass, p.BassInfluence), 1500)
             noiseStrength == Mul(feat.BeatStrength, 500 + Mul(feat.Bass, 800))
             distortAmplitude == lerp(p.DistortAmplitude, 400 + Mul(feat.Bass, 900), 750)
             baseSpeed == 80 + Mul(energy, 800)
             trebleBoost == One + Mul(feat.Treble, p.TrebleInfluence)
             targetSpeed == Mul(baseSpeed, trebleBoost)
             event == effectEvent(p, feat)
             bassBrightness == Mul(feat.Bass, 1200)
             beatBoost == Mul(feat.BeatStrength, 800)
             targetBrightness == clamp(Mul(feat.Overall, 800) + bassBrightness + beatBoost,
                                       0, 2500)
         IN  [p EXCEPT !.Amplitude = lerp(@, bassMultiplier, 850),
                       !.NoiseStrength = noiseStrength,
                       !.DistortAmplitude = IF event = "drop" THEN One ELSE distortAmplitude,
                       !.Speed = lerp(@, targetSpeed, 600),
                       !.LastEffectTime = IF event = "none" THEN @ ELSE p.Time,
                       !.BeatDistortion = IF event = "drop" THEN 1500
                                          ELSE IF event = "beat" THEN One ELSE @,
                       !.BeatZoom = IF event = "drop" THEN 1200
                                    ELSE IF event = "beat" THEN 800 ELSE @,
                       !.Brightness = lerp(@, targetBrightness, 850)]

GateValue(v, floor) ==
    IF v <= floor THEN 0 ELSE clamp(((v - floor) * One) \div (One - floor), 0, One)

\* a gate that leaves the drop flag as it was
GateFeaturesKeepDrop(f, floor) ==
    IF floor <= 0 THEN f
    ELSE [f EXCEPT !.Bass = GateValue(@, floor), !.Mid = GateValue(@, floor),
                   !.Treble = GateValue(@, floor), !.Overall = GateValue(@, floor),
                   !.BeatStrength = GateValue(@, floor)]

GateFeatures(f, floor) ==
    IF floor <= 0 THEN f
    ELSE LET g == [f EXCEPT !.Bass = GateValue(@, floor), !.Mid = GateValue(@, floor),
                            !.Treble = GateValue(@, floor), !.Overall = GateValue(@, floor),
                            !.BeatStrength = GateValue(@, floor)]
         IN  IF g.Overall = 0 /\ g.Bass = 0 /\ g.Mid = 0 /\ g.Treble = 0
             THEN [g EXCEPT !.IsDrop = FALSE]
             ELSE g

-----------------------------------------------------------------------------
(* Parameters driven call by call, as App.step drives them: ApplyFeatures  *)
(* with the gated Features of the tick, then UpdateTime.                   *)

TickDelta == 100

\* 1/60 s and 1/10 s in thousandths of a second
ParamDeltas == {17, TickDelta}

SilentFeatures == ZeroFeatures

DropFeatures ==
    [Bass |-> 900, Mid |-> 300, Treble |-> 100, Overall |-> 600, BeatStrength |-> 900,
     IsDrop |-> TRUE]

QuietDropFeatures ==
    [Bass |-> 600, Mid |-> 0, Treble |-> 0, Overall |-> 200, BeatStrength |-> 0,
     IsDrop |-> TRUE]

BeatFeatures ==
    [Bass |-> 400, Mid |-> 200, Treble |-> 100, Overall |-> 300, BeatStrength |-> 500,
     IsDrop |-> FALSE]

WeakFeatures ==
    [Bass |-> 100, Mid |-> 50, Treble |-> 0, Overall |-> 50, BeatStrength |-> 133,
     IsDrop |-> FALSE]

\* only the drop flag is set: not equal to Features{}
FlagOnlyFeatures == [ZeroFeatures EXCEPT !.IsDrop = TRUE]

LoudFeatures ==
    {DropFeatures, QuietDropFeatures, BeatFeatures, WeakFeatures, FlagOnlyFeatures}

\* values of BeatSensitivity: the default and two that the control panel can set
Sensitivities == {50, 200, 1200}

\* timed: UpdateTime has run since the call
NoApply == [feat |-> ZeroFeatures, dt |-> 0, timed |-> TRUE]

ParInitWith(sensitivities, nApplies, nLoud) ==
    /\ prm \in {[Defaults EXCEPT !.BeatSensitivity = b] : b \in sensitivities}
    /\ applied = NoApply
    /\ silentRun = 0
    /\ appliesLeft = nApplies
    /\ loudLeft = nLoud

ParIdle == ParInitWith({Defaults.BeatSensitivity}, 0, 0)


\* at most a quarter of the calls carry non-silent features; the update they
\* drive does not read delta, so they all come with the same delta
LoudBudget == MaxApplies \div 4

ParInit == ParInitWith(Sensitivities, MaxApplies, LoudBudget)

\* one call p.ApplyFeatures(feat, delta), at the place where App.step makes it
ApplyFeaturesCall ==
    /\ appliesLeft > 0
    /\ applied.timed
    /\ \E feat \in LoudFeatures \cup {SilentFeatures}, dt \in ParamDeltas :
        /\ feat # SilentFeatures => (loudLeft > 0 /\ dt = TickDelta)
        /\ prm' = ApplyFeatures(prm, feat, dt)
        /\ applied' = [feat |-> feat, dt |-> dt, timed |-> FALSE]
        /\ silentRun' = IF feat = SilentFeatures THEN silentRun + 1 ELSE 0
        /\ appliesLeft' = appliesLeft - 1
        /\ loudLeft' = IF feat # SilentFeatures THEN loudLeft - 1 ELSE loudLeft

\* the call p.UpdateTime(delta) that follows it in App.step, with the same delta
UpdateTimeCall ==
    /\ ~applied.timed
    /\ prm' = UpdateTime(prm, applied.dt)
    /\ applied' = [applied EXCEPT !.timed = TRUE]
    /\ UNCHANGED <<silentRun, appliesLeft, loudLeft>>

-----------------------------------------------------------------------------
(* internal/app and internal/web: the tick loop (App.Run, App.step) and a  *)
(* request of the control panel (Server.handleUpdate, the status loop) in  *)
(* another goroutine.  a.mu is the App's RWMutex.                          *)

NoiseFloor == 0

FreeMutex == [writer |-> "none", readers |-> {}]

MutexFree(m) == m.writer = "none" /\ m.readers = {}

\* the steps of App.step, in the order the tick ran them
NoSteps == <<>>

IdleTick(ticksLeft) ==
    [pc |-> "wait", left |-> ticksLeft, ticks |-> 0, delta |-> 0,
     features |-> ZeroFeatures, steps |-> NoSteps,
     speedSet |-> 0, timeSpeed |-> 0, produced |-> Defaults,
     rendered |-> Defaults, renderedFeatures |-> ZeroFeatures, renSeen |-> ZeroRenderer]

NoRequest == [kind |-> "none", arg |-> 0, name |-> ""]

IdleWeb(requestsLeft) ==
    [pc |-> "idle", left |-> requestsLeft, req |-> NoRequest, snapshot |-> Defaults,
     seenFeatures |-> ZeroFeatures, seenFPS |-> 0, lastOp |-> "none", during |-> "none"]

\* the bodies of the requests: one part of an UpdateRequest each, or a status poll
Requests ==
    {[kind |-> "params", arg |-> 0, name |-> ""],
     [kind |-> "params", arg |-> 2 * One, name |-> ""],
     [kind |-> "configure", arg |-> 0, name |-> "flash"],
     [kind |-> "quality", arg |-> 0, name |-> "ECO"],
     [kind |-> "dims", arg |-> 1, name |-> ""],
     [kind |-> "status", arg |-> 0, name |-> ""]}

AppIdle ==
    /\ mu = FreeMutex
    /\ app = [params |-> Defaults, lastFeatures |-> ZeroFeatures, lastFPS |-> 0,
              frameStride |-> 1, skipCounter |-> 0]
    /\ tick = IdleTick(0)
    /\ web = IdleWeb(0)

\* app.New: default parameters, a renderer with a registered pattern, an analyzer
AppInit ==
    /\ mu = FreeMutex
    /\ \E stride \in {1, 2} :
        app = [params |-> Defaults, lastFeatures |-> ZeroFeatures, lastFPS |-> 0,
               frameStride |-> stride, skipCounter |-> 0]
    /\ tick = IdleTick(MaxTicks)
    /\ web = IdleWeb(MaxRequests)
    /\ ren = NewWithBackend(MaxDim, 2, "", "ripple", "FIRE", "", FALSE, FALSE)
    /\ noiseOctaves = setNoiseProfile(qualityBalanced)
    /\ frame = NoFrame
    /\ asked = NotAsked
    /\ opsLeft = 0

renState == <<ren, noiseOctaves, frame>>

Alive == tick.pc # "crashed"

\* step, up to the analysis: the delta and the Features of this tick
TickAnalyze ==
    /\ Alive
    /\ tick.pc = "wait"
    /\ tick.left > 0
    /\ \E blk \in {EmptyBlock, LoudBlock} :
        LET res == Analyze(an, blk, TickDelta)
            features == IF NoiseFloor > 0 THEN GateFeatures(res.out, NoiseFloor) ELSE res.out
        IN  /\ an' = res.an
            /\ tick' = [tick EXCEPT !.pc = "apply", !.left = @ - 1, !.delta = TickDelta,
                                    !.features = features, !.steps = <<"analysis">>]
    /\ UNCHANGED <<mu, app, web, renState>>

\* a.params.ApplyFeatures(features, delta), a.mu not held
TickApply ==
    /\ Alive
    /\ tick.pc = "apply"
    /\ app' = [app EXCEPT !.params = ApplyFeatures(@, tick.features, tick.delta)]
    /\ tick' = [tick EXCEPT !.pc = "time", !.speedSet = app'.params.Speed,
                            !.steps = Append(@, "ApplyFeatures")]
    /\ UNCHANGED <<mu, web, an, renState>>

\* a.params.UpdateTime(delta), a.mu not held
TickTime ==
    /\ Alive
    /\ tick.pc = "time"
    /\ app' = [app EXCEPT !.params = UpdateTime(@, tick.delta)]
    /\ tick' = [tick EXCEPT !.pc = "lock", !.timeSpeed = app.params.Speed,
                            !.produced = app'.params,
                            !.steps = Append(@, "UpdateTime")]
    /\ UNCHANGED <<mu, web, an, renState>>

\* a.mu.Lock()
TickLock ==
    /\ Alive
    /\ tick.pc = "lock"
    /\ MutexFree(mu)
    /\ mu' = [mu EXCEPT !.writer = "tick"]
    /\ tick' = [tick EXCEPT !.pc = "stats"]
    /\ UNCHANGED <<app, web, an, renState>>

\* a.lastFeatures = features; a.lastFPS = fps; a.mu.Unlock(); the frame stride
TickStats ==
    /\ Alive
    /\ tick.pc = "stats"
    /\ mu' = [mu EXCEPT !.writer = "none"]
    /\ LET skip == app.frameStride > 1 /\ app.skipCounter < app.frameStride - 1
       IN  /\ app' = [app EXCEPT !.lastFeatures = tick.features,
                                 !.lastFPS = (One * One) \div tick.delta,
                                 !.skipCounter = IF skip THEN @ + 1 ELSE 0]
           /\ tick' = [tick EXCEPT !.pc = IF skip THEN "auto" ELSE "render"]
    /\ UNCHANGED <<web, an, renState>>

\* what stands for the Parameters and Features in the cells of the frame
RenderTime(feat) == IF feat = ZeroFeatures THEN 0 ELSE 1

\* a.renderer.Render(a.params, features, fps) is entered, a.mu not held: the
\* arguments are copied, the dimensions read and the coordinate caches filled
TickRenderBegin ==
    /\ Alive
    /\ tick.pc = "render"
    /\ ren' = Render(ren, RenderTime(tick.features)).ren
    /\ tick' = [tick EXCEPT !.pc = "rendering", !.rendered = app.params,
                            !.renderedFeatures = tick.features, !.renSeen = ren',
                            !.steps = Append(@, "Render")]
    /\ UNCHANGED <<mu, app, web, an, noiseOctaves, frame>>

\* the frames Render can return when the renderer was changed under it: the one
\* of the renderer as it was, the one of the renderer as it is, or, after a change
\* of the dimensions between the reads of r.height, an index out of range
RenderOutcomes(seen, now, t) ==
    IF now = seen THEN {Render(now, t).frame}
    ELSE {Render(seen, t).frame, Render(now, t).frame}
         \cup (IF now.width # seen.width \/ now.height # seen.height
               THEN {PanicFrame} ELSE {})

\* Render returns and the frame is presented
TickRenderEnd ==
    /\ Alive
    /\ tick.pc = "rendering"
    /\ \E f \in RenderOutcomes(tick.renSeen, ren, RenderTime(tick.renderedFeatures)) :
        /\ frame' = f
        /\ tick' = [tick EXCEPT !.pc = IF f.result = "panic" THEN "crashed" ELSE "auto"]
    /\ UNCHANGED <<mu, app, web, an, ren, noiseOctaves>>

\* maybeAutoRandomize with autoRandomize off: a.mu is taken and released
TickAuto ==
    /\ Alive
    /\ tick.pc = "auto"
    /\ MutexFree(mu)
    /\ tick' = [tick EXCEPT !.pc = "wait", !.ticks = @ + 1]
    /\ UNCHANGED <<mu, app, web, an, renState>>

\* a request arrives
WebRequest ==
    /\ Alive
    /\ web.pc = "idle"
    /\ web.left > 0
    /\ \E req \in Requests :
        web' = [web EXCEPT !.pc = req.kind, !.left = @ - 1, !.req = req]
    /\ UNCHANGED <<mu, app, tick, an, renState>>

\* GetParams: a.mu.RLock()
WebGetParamsLock ==
    /\ Alive
    /\ web.pc = "params"
    /\ mu.writer = "none"
    /\ mu' = [mu EXCEPT !.readers = @ \cup {"web"}]
    /\ web' = [web EXCEPT !.pc = "readParams"]
    /\ UNCHANGED <<app, tick, an, renState>>

\* GetParams returns a copy; handleUpdate merges the request's non-zero fields
WebGetParams ==
    /\ Alive
    /\ web.pc = "readParams"
    /\ mu' = [mu EXCEPT !.readers = @ \ {"web"}]
    /\ web' = [web EXCEPT !.pc = "setParams",
                          !.snapshot = IF web.req.arg > 0
                                       THEN [app.params EXCEPT !.Speed = web.req.arg]
                                       ELSE app.params]
    /\ UNCHANGED <<app, tick, an, renState>>

\* SetParams: a.mu.Lock()
WebSetParamsLock ==
    /\ Alive
    /\ web.pc = "setParams"
    /\ MutexFree(mu)
    /\ mu' = [mu EXCEPT !.writer = "web"]
    /\ web' = [web EXCEPT !.pc = "writeParams"]
    /\ UNCHANGED <<app, tick, an, renState>>

\* SetParams: a.params = p; a.mu.Unlock()
WebSetParams ==
    /\ Alive
    /\ web.pc = "writeParams"
    /\ app' = [app EXCEPT !.params = web.snapshot]
    /\ mu' = [mu EXCEPT !.writer = "none"]
    /\ web' = [web EXCEPT !.pc = "idle", !.lastOp = "SetParams", !.during = tick.pc]
    /\ UNCHANGED <<tick, an, renState>>

\* GetRenderer (a.mu.RLock taken and released), then renderer.Configure
WebConfigure ==
    /\ Alive
    /\ web.pc = "configure"
    /\ mu.writer = "none"
    /\ ren' = Configure(ren, ren.paletteName, web.req.name, ren.colorMode, ren.colorOnAudio)
    /\ web' = [web EXCEPT !.pc = "idle", !.lastOp = "Configure", !.during = tick.pc]
    /\ UNCHANGED <<mu, app, tick, an, noiseOctaves, frame>>

\* GetRenderer (a.mu.RLock taken and released), then renderer.SetQuality
WebSetQuality ==
    /\ Alive
    /\ web.pc = "quality"
    /\ mu.writer = "none"
    /\ ren' = SetQuality(ren, web.req.name)
    /\ noiseOctaves' = setNoiseProfile(ren'.quality)
    /\ web' = [web EXCEPT !.pc = "idle", !.lastOp = "SetQuality", !.during = tick.pc]
    /\ UNCHANGED <<mu, app, tick, an, frame>>

\* SetDimensions: a.mu.Lock()
WebDimsLock ==
    /\ Alive
    /\ web.pc = "dims"
    /\ MutexFree(mu)
    /\ mu' = [mu EXCEPT !.writer = "web"]
    /\ web' = [web EXCEPT !.pc = "resize"]
    /\ UNCHANGED <<app, tick, an, renState>>

\* SetDimensions, status bar off: a.renderer.Resize(width, height); a.mu.Unlock()
WebResize ==
    /\ Alive
    /\ web.pc = "resize"
    /\ ren' = Resize(ren, web.req.arg, web.req.arg)
    /\ mu' = [mu EXCEPT !.writer = "none"]
    /\ web' = [web EXCEPT !.pc = "idle", !.lastOp = "Resize", !.during = tick.pc]
    /\ UNCHANGED <<app, tick, an, noiseOctaves, frame>>

\* GetFeatures: a.mu.RLock()
WebStatusLock ==
    /\ Alive
    /\ web.pc = "status"
    /\ mu.writer = "none"
    /\ mu' = [mu EXCEPT !.readers = @ \cup {"web"}]
    /\ web' = [web EXCEPT !.pc = "readStatus"]
    /\ UNCHANGED <<app, tick, an, renState>>

\* GetFeatures and GetFPS return the last values; a.mu.RUnlock()
WebStatus ==
    /\ Alive
    /\ web.pc = "readStatus"
    /\ mu' = [mu EXCEPT !.readers = @ \ {"web"}]
    /\ web' = [web EXCEPT !.pc = "idle", !.seenFeatures = app.lastFeatures,
                          !.seenFPS = app.lastFPS, !.lastOp = "Status",
                          !.during = tick.pc]
    /\ UNCHANGED <<app, tick, an, renState>>

-----------------------------------------------------------------------------
(* internal/audio: the Capture ring buffer, written by the PortAudio       *)
(* callback (Capture.process) and read by the tick loop (SamplesInto).     *)
(* A sample is an integer; the samples fed to the callback are numbered    *)
(* 1, 2, 3, ... in the order of their arrival.                             *)

Zeros(n) == [i \in 1..n |-> 0]

\* copy(dst[at:], src)
CopyAt(dst, at, src) ==
    [i \in 1..Len(dst) |-> IF i > at /\ i <= at + Len(src) THEN src[i - at] ELSE dst[i]]

\* s[from:], from counted from 0
SliceFrom(s, from) == SubSeq(s, from + 1, Len(s))

\* s[:to]
SliceTo(s, to) == SubSeq(s, 1, to)

\* the channel samples of one frame whose mean is v
FrameOf(v, channels) == IF channels = 1 THEN <<v>> ELSE <<v + 1, v - 1>>

RECURSIVE Interleaved(_, _, _)
\* the callback's input for the mono samples first..last
Interleaved(first, last, channels) ==
    IF first > last THEN <<>>
    ELSE FrameOf(first, channels) \o Interleaved(first + 1, last, channels)

RECURSIVE SumFrame(_, _, _)
SumFrame(in, base, n) == IF n = 0 THEN 0 ELSE in[base + n] + SumFrame(in, base, n - 1)

\* the down-mix of process: the mean of each frame's channels
Mono(in, channels) ==
    IF channels > 1
    THEN [i \in 1..(Len(in) \div channels) |->
            SumFrame(in, (i - 1) * channels, channels) \div channels]
    ELSE in

\* the states of (buffer, index) after each statement of mixIntoBuffer
mixSteps(c, in) ==
    LET size == Len(c.buffer)
        n == Len(in)
    IN  IF n = 0 THEN <<>>
        ELSE IF n >= size
        THEN LET b == CopyAt(c.buffer, 0, SliceFrom(in, n - size))
             IN  << [c EXCEPT !.buffer = b], [c EXCEPT !.buffer = b, !.index = 0] >>
        ELSE IF c.index + n <= size
        THEN LET b == CopyAt(c.buffer, c.index, in)
                 idx == IF c.index + n = size THEN 0 ELSE c.index + n
             IN  << [c EXCEPT !.buffer = b], [c EXCEPT !.buffer = b, !.index = idx] >>
        ELSE LET remaining == size - c.index
                 b1 == CopyAt(c.buffer, c.index, SliceTo(in, remaining))
                 b2 == CopyAt(b1, 0, SliceFrom(in, remaining))
             IN  << [c EXCEPT !.buffer = b1], [c EXCEPT !.buffer = b2],
                    [c EXCEPT !.buffer = b2, !.index = n - remaining] >>

mixIntoBuffer(c, in) ==
    LET steps == mixSteps(c, in)
    IN  IF steps = <<>> THEN c ELSE steps[Len(steps)]

\* the last n elements of s
LastN(s, n) == IF Len(s) <= n THEN s ELSE SliceFrom(s, Len(s) - n)

CapMutexFree == [writer |-> FALSE, readers |-> 0]

\* c.mu.Lock() can return
CanLock(m) == ~m.writer /\ m.readers = 0

\* a read lock that does not wait for the writer
CanRLockAlways(m) == TRUE

\* c.mu.RLock() can return
CanRLock(m) == ~m.writer

NewCapture(bufferSize, channels) ==
    [buffer |-> Zeros(bufferSize), index |-> 0, channels |-> channels]

IdleCallback == [pc |-> "idle", in |-> <<>>, todo |-> <<>>]

\* dst is the slice the caller passes in: nil at first, then the last result
IdleReader == [pc |-> "idle", dst |-> <<>>, result |-> <<>>, expect |-> <<>>, returns |-> 0]

CapInitWith(sizes, channelCounts, nBlocks, nReads) ==
    /\ capture \in {NewCapture(n, ch) : n \in sizes, ch \in channelCounts}
    /\ capMu = CapMutexFree
    /\ callback = IdleCallback
    /\ reader = IdleReader
    /\ stored = capture.buffer
    /\ fed = 0
    /\ capLeft = [blocks |-> nBlocks, reads |-> nReads]

CapIdle == CapInitWith({1}, {1}, 0, 0)


CapInit == CapInitWith({MaxBuf}, {1, 2}, MaxBlocks, MaxReads)

\* PortAudio calls c.process(in) with a block of 0..len(buffer)+1 frames
CbCall ==
    /\ callback.pc = "idle"
    /\ capLeft.blocks > 0
    /\ \E frames \in 0..(Len(capture.buffer) + 1) :
        /\ callback' = [callback EXCEPT !.pc = "lock",
                            !.in = Interleaved(fed + 1, fed + frames, capture.channels)]
        /\ fed' = fed + frames
    /\ capLeft' = [capLeft EXCEPT !.blocks = @ - 1]
    /\ UNCHANGED <<capture, capMu, reader, stored>>

\* c.mu.Lock() returns; the down-mix is made
CbLock ==
    /\ callback.pc = "lock"
    /\ CanLock(capMu)
    /\ capMu' = [capMu EXCEPT !.writer = TRUE]
    /\ callback' = [callback EXCEPT !.pc = "mix",
                        !.todo = mixSteps(capture, Mono(callback.in, capture.channels))]
    /\ UNCHANGED <<capture, reader, stored, fed, capLeft>>

\* one statement of mixIntoBuffer
CbMix ==
    /\ callback.pc = "mix"
    /\ callback.todo # <<>>
    /\ capture' = Head(callback.todo)
    /\ callback' = [callback EXCEPT !.todo = Tail(@)]
    /\ stored' = IF Len(callback.todo) = 1
                  THEN LastN(stored \o Mono(callback.in, capture.channels), Len(capture.buffer))
                  ELSE stored
    /\ UNCHANGED <<capMu, reader, fed, capLeft>>

\* the deferred c.mu.Unlock()
CbUnlock ==
    /\ callback.pc = "mix"
    /\ callback.todo = <<>>
    /\ capMu' = [capMu EXCEPT !.writer = FALSE]
    /\ callback' = IdleCallback
    /\ UNCHANGED <<capture, reader, stored, fed, capLeft>>

\* the tick loop calls c.SamplesInto(a.sampleBuffer)
RdCall ==
    /\ reader.pc = "idle"
    /\ capLeft.reads > 0
    /\ reader' = [reader EXCEPT !.pc = "rlock", !.dst = reader.result]
    /\ capLeft' = [capLeft EXCEPT !.reads = @ - 1]
    /\ UNCHANGED <<capture, capMu, callback, stored, fed>>

\* c.mu.RLock() returns; dst is made len(c.buffer) long
RdRLock ==
    /\ reader.pc = "rlock"
    /\ CanRLock(capMu)
    /\ capMu' = [capMu EXCEPT !.readers = @ + 1]
    /\ reader' = [reader EXCEPT !.pc = "copy",
                      !.dst = IF Len(@) < Len(capture.buffer)
                              THEN Zeros(Len(capture.buffer))
                              ELSE SliceTo(@, Len(capture.buffer))]
    /\ UNCHANGED <<capture, callback, stored, fed, capLeft>>

\* copy(dst, c.buffer) when c.index == 0, else copy(dst, c.buffer[c.index:])
RdCopy ==
    /\ reader.pc = "copy"
    /\ reader' = IF capture.index = 0
                  THEN [reader EXCEPT !.pc = "return", !.dst = CopyAt(@, 0, capture.buffer)]
                  ELSE [reader EXCEPT !.pc = "copy2",
                            !.dst = CopyAt(@, 0, SliceFrom(capture.buffer, capture.index))]
    /\ UNCHANGED <<capture, capMu, callback, stored, fed, capLeft>>

\* copy(dst[size-c.index:], c.buffer[:c.index])
RdCopy2 ==
    /\ reader.pc = "copy2"
    /\ reader' = [reader EXCEPT !.pc = "return",
                      !.dst = CopyAt(@, Len(capture.buffer) - capture.index,
                                     SliceTo(capture.buffer, capture.index))]
    /\ UNCHANGED <<capture, capMu, callback, stored, fed, capLeft>>

\* return dst, with the deferred c.mu.RUnlock()
RdReturn ==
    /\ reader.pc = "return"
    /\ capMu' = [capMu EXCEPT !.readers = @ - 1]
    /\ reader' = [reader EXCEPT !.pc = "idle", !.result = reader.dst, !.expect = stored,
                      !.returns = @ + 1]
    /\ UNCHANGED <<capture, callback, stored, fed, capLeft>>

-----------------------------------------------------------------------------
(* internal/app: the loop of App.Run.  It selects between ctx.Done(), the  *)
(* key events of the listener goroutine and ticker.C; a tick is one call   *)
(* of App.step, whose Render is in flight while its tiles are drawn.       *)

ErrRendererQuit == "render: quit"
ErrPresent == "sdl: texture update failed"
ErrWrite == "write /dev/stdout: broken pipe"
ErrCanceled == "context canceled"
NotReturned == "running"

inputEventRandomize == "randomize"
inputEventQuit == "quit"

\* the capacity of the events channel is 16; the model gives it room for every key pressed
EventsCap == MaxKeys

\* a test that takes no error for the stop signal
IsRendererQuitNever(err) == FALSE

\* errors.Is(err, render.ErrRendererQuit)
IsRendererQuit(err) == err = ErrRendererQuit

\* what frame.Present(statusText) can return, and what the write to stdout can
PresentResults(windowMode) ==
    IF windowMode THEN {Nil, ErrRendererQuit, ErrPresent} ELSE {Nil, ErrWrite}

\* Run is entered: the ticker is started, the listener too unless the window
\* backend is in use or the keyboard cannot be opened
RunStart(windowMode, keyboardOpen, frameStride) ==
    /\ run = [pc |-> "select", windowMode |-> windowMode, frameStride |-> frameStride,
              skipCounter |-> 0, tilesLeft |-> 0, err |-> Nil, ret |-> NotReturned,
              tickedAfterStop |-> FALSE]
    /\ ctxDone = FALSE
    /\ stopAt = "none"
    /\ ticker = FALSE
    /\ keys = [isNil |-> windowMode \/ ~keyboardOpen, events |-> <<>>, closed |-> FALSE,
                listening |-> ~windowMode /\ keyboardOpen, keysLeft |-> MaxKeys]

RunIdle ==
    /\ run = [pc |-> "returned", windowMode |-> FALSE, frameStride |-> 1,
              skipCounter |-> 0, tilesLeft |-> 0, err |-> Nil, ret |-> Nil,
              tickedAfterStop |-> FALSE]
    /\ ctxDone = FALSE
    /\ stopAt = "none"
    /\ ticker = FALSE
    /\ keys = [isNil |-> TRUE, events |-> <<>>, closed |-> FALSE,
                listening |-> FALSE, keysLeft |-> 0]


RunInit ==
    \E windowMode \in BOOLEAN, keyboardOpen \in BOOLEAN, frameStride \in {1, 2} :
        RunStart(windowMode, keyboardOpen, frameStride)

\* a quit event is waiting in a.inputEvents
QuitQueued ==
    /\ ~keys.isNil
    /\ \E i \in 1..Len(keys.events) : keys.events[i] = inputEventQuit

\* the caller cancels the context
Cancel ==
    /\ ~ctxDone
    /\ run.pc # "returned"
    /\ ctxDone' = TRUE
    /\ stopAt' = run.pc
    /\ UNCHANGED <<run, ticker, keys>>

\* the ticker puts a tick in ticker.C (a tick that finds the channel full is dropped)
TickerFire ==
    /\ ~ticker
    /\ run.pc # "returned"
    /\ ticker' = TRUE
    /\ UNCHANGED <<run, ctxDone, keys, stopAt>>

\* the listener reads a key: r is sent without blocking, q or Esc is sent and
\* the listener returns, closing the channel; after ctx.Done() it returns
KeyPress ==
    /\ keys.listening
    /\ keys.keysLeft > 0
    /\ run.pc # "returned"
    /\ \E evt \in {inputEventRandomize, inputEventQuit} :
        keys' = IF ctxDone
                 THEN [keys EXCEPT !.listening = FALSE, !.closed = TRUE, !.keysLeft = @ - 1]
                 ELSE IF evt = inputEventQuit
                 THEN [keys EXCEPT !.events = Append(@, evt), !.listening = FALSE,
                                    !.closed = TRUE, !.keysLeft = @ - 1]
                 ELSE [keys EXCEPT !.events = IF Len(@) < EventsCap THEN Append(@, evt) ELSE @,
                                    !.keysLeft = @ - 1]
    /\ UNCHANGED <<run, ctxDone, ticker, stopAt>>

\* a cancellation that is acted on wherever Run is
DoneReadyAnywhere(pc, done) == done /\ pc # "returned"

\* the case <-ctx.Done() of the select is ready
DoneReady(pc, done) == pc = "select" /\ done

\* case <-ctx.Done(): return ctx.Err()
SelectDone ==
    /\ DoneReady(run.pc, ctxDone)
    /\ run' = [run EXCEPT !.pc = "returned", !.ret = ErrCanceled]
    /\ UNCHANGED <<ctxDone, ticker, keys, stopAt>>

\* case evt, ok := <-a.inputEvents
SelectInput ==
    /\ run.pc = "select"
    /\ ~keys.isNil
    /\ keys.events # <<>> \/ keys.closed
    /\ IF keys.events = <<>>
       THEN /\ keys' = [keys EXCEPT !.isNil = TRUE]
            /\ UNCHANGED run
       ELSE /\ keys' = [keys EXCEPT !.events = Tail(@)]
            /\ run' = IF Head(keys.events) = inputEventQuit
                      THEN [run EXCEPT !.pc = "returned", !.ret = Nil]
                      ELSE run
    /\ UNCHANGED <<ctxDone, ticker, stopAt>>

\* case <-ticker.C: a.step() is entered
SelectTick ==
    /\ run.pc = "select"
    /\ ticker
    /\ ticker' = FALSE
    /\ run' = [run EXCEPT !.pc = "step", !.tickedAfterStop = @ \/ ctxDone \/ QuitQueued]
    /\ UNCHANGED <<ctxDone, keys, stopAt>>

\* step up to the frame stride test: a skipped frame returns nil, else Render is entered
StepUpdate ==
    /\ run.pc = "step"
    /\ run' = IF run.frameStride > 1 /\ run.skipCounter < run.frameStride - 1
              THEN [run EXCEPT !.pc = "check", !.skipCounter = @ + 1, !.err = Nil]
              ELSE [run EXCEPT !.pc = "render", !.skipCounter = 0, !.tilesLeft = MaxTiles]
    /\ UNCHANGED <<ctxDone, ticker, keys, stopAt>>

\* a worker of the render finishes a tile
RenderTile ==
    /\ run.pc = "render"
    /\ run.tilesLeft > 0
    /\ run' = [run EXCEPT !.tilesLeft = @ - 1]
    /\ UNCHANGED <<ctxDone, ticker, keys, stopAt>>

\* Render returns the frame
RenderDone ==
    /\ run.pc = "render"
    /\ run.tilesLeft = 0
    /\ run' = [run EXCEPT !.pc = "present"]
    /\ UNCHANGED <<ctxDone, ticker, keys, stopAt>>

\* frame.Present(statusText), or the diff written to stdout; step returns
StepPresent ==
    /\ run.pc = "present"
    /\ \E err \in PresentResults(run.windowMode) :
        run' = [run EXCEPT !.pc = "check", !.err = err]
    /\ UNCHANGED <<ctxDone, ticker, keys, stopAt>>

\* if err := a.step(); err != nil { ... }; a.maybeAutoRandomize()
StepCheck ==
    /\ run.pc = "check"
    /\ run' = IF run.err = Nil THEN [run EXCEPT !.pc = "select"]
              ELSE IF IsRendererQuit(run.err) THEN [run EXCEPT !.pc = "returned", !.ret = Nil]
              ELSE [run EXCEPT !.pc = "returned", !.ret = run.err]
    /\ UNCHANGED <<ctxDone, ticker, keys, stopAt>>

-----------------------------------------------------------------------------
(* internal/render: the brightness of one cell (evaluatePixel, after the   *)
(* pattern has been evaluated) and the glyph chosen for it (samplePixel).  *)
(* combined is the pattern value of the cell, dist its distance from the   *)
(* centre as the vignette measures it.                                     *)

clamp01(v) == clamp(v, 0, One)

\* the fields of Parameters that buildFrameParams reads for the brightness,
\* at rest after silence
RestingParams ==
    [Amplitude |-> 0, Brightness |-> 0, Gamma |-> One, Contrast |-> 800,
     Vignette |-> 250, VignetteSoftness |-> 550, GlyphSharpness |-> One]

\* the same fields while music plays
PlayingParams ==
    [Amplitude |-> One, Brightness |-> 2000, Gamma |-> One, Contrast |-> 800,
     Vignette |-> 250, VignetteSoftness |-> 550, GlyphSharpness |-> One]

PlayingFeatures ==
    [Bass |-> 400, Mid |-> 200, Treble |-> 100, Overall |-> 300, BeatStrength |-> 500,
     IsDrop |-> FALSE]

\* math.Pow(x, 1.25) for x in [0,1], interpolated between exact values
Pow125Table == << <<0, 0>>, <<250, 177>>, <<500, 420>>, <<750, 698>>, <<One, One>> >>

Pow125(x) ==
    IF x <= 0 THEN 0
    ELSE IF x >= One THEN One
    ELSE LET i == CHOOSE k \in 1..(Len(Pow125Table) - 1) :
                      Pow125Table[k][1] <= x /\ x < Pow125Table[k + 1][1]
             lo == Pow125Table[i]
             hi == Pow125Table[i + 1]
         IN  lo[2] + ((x - lo[1]) * (hi[2] - lo[2])) \div (hi[1] - lo[1])

\* math.Pow(x, e) for the exponents the parameters above give: 1.0 and 1.25
PowUnit(x, e) == IF e = One THEN x ELSE Pow125(x)

audioActivation(colorOnAudio, feat) ==
    IF ~colorOnAudio THEN One
    ELSE clamp01(Mul(feat.Overall, 1450) + Mul(feat.BeatStrength, 600)
                 + (IF feat.IsDrop THEN 300 ELSE 0))

buildFrameParams(p, quality) ==
    [amplitude |-> clamp(p.Amplitude, 0, 3 * One),
     invGamma |-> (One * One) \div maxFloat(100, p.Gamma),
     invContrast |-> (One * One) \div maxFloat(200, p.Contrast),
     brightnessScale |-> clamp(p.Brightness, 0, 3 * One),
     vignette |-> clamp(p.Vignette, 0, One),
     vignetteSoft |-> clamp01(p.VignetteSoftness),
     glyphSharpness |-> maxFloat(200, p.GlyphSharpness),
     quality |-> quality]

\* the brightness of evaluatePixel from the pattern value on; dist is 0 or 1
pixelBrightness(combined, ctx, colorOnAudio, activation, dist) ==
    LET b0 == clamp01(Mul(Mul(clamp(combined, -One, One), ctx.amplitude) + One, One \div 2))
        b1 == IF ctx.quality = qualityEco
              THEN Mul(b0, 700 + Mul(b0, 300))
              ELSE PowUnit(PowUnit(b0, ctx.invGamma), ctx.invContrast)
        b2 == clamp01(Mul(b1, ctx.brightnessScale))
        b3 == IF colorOnAudio THEN clamp01(lerp(40, b2, activation)) ELSE b2
        vig == clamp01(One - Mul(ctx.vignette, dist))
        b4 == IF ctx.vignette > 0
              THEN Mul(b3, lerp(One, vig, One - ctx.vignetteSoft))
              ELSE b3
    IN  clamp01(b4)

glyphValueOf(brightness, ctx) ==
    IF ctx.quality = qualityEco THEN brightness ELSE PowUnit(brightness, ctx.glyphSharpness)

NoCell ==
    [evaluated |-> FALSE, colorOnAudio |-> FALSE, feat |-> ZeroFeatures, palette |-> "defaultPalette",
     quality |-> qualityHigh, combined |-> 0, dist |-> 0,
     activation |-> One, brightness |-> 0, index |-> 0]

CellIdle == cell = NoCell

\* a frame: the Parameters and Features go together (silence or music)
FrameInputs ==
    {[p |-> RestingParams, feat |-> ZeroFeatures], [p |-> PlayingParams, feat |-> PlayingFeatures]}

\* one call of samplePixel while a frame is rendered
EvaluateCell ==
    \E frm \in FrameInputs, colorOnAudio \in BOOLEAN, quality \in {qualityEco, qualityHigh},
       palette \in DOMAIN PaletteLen, combined \in {-One, -300, 0, 300, One}, dist \in {0, One} :
        LET ctx == buildFrameParams(frm.p, quality)
            activation == audioActivation(colorOnAudio, frm.feat)
            brightness == pixelBrightness(combined, ctx, colorOnAudio, activation, dist)
        IN  cell' = [evaluated |-> TRUE, colorOnAudio |-> colorOnAudio, feat |-> frm.feat,
                     palette |-> palette, quality |-> quality, combined |-> combined,
                     dist |-> dist, activation |-> activation, brightness |-> brightness,
                     index |-> glyphIndex(glyphValueOf(brightness, ctx), PaletteLen[palette])]

-----------------------------------------------------------------------------
(* internal/app: the auto-randomizer.  maybeAutoRandomize runs at the end  *)
(* of every tick, randomizeVisuals also on the randomize key; the control  *)
(* panel switches it on and off and sets its interval.  Time is counted in *)
(* seconds; the clock moves between the handlers.                          *)

DefaultRandomInterval == 10

\* strings.EqualFold on the names the model passes in
EqualFold(a, b) == ToLower(a) = ToLower(b)

RECURSIVE FirstOther(_, _, _)
\* the first of the four attempts that differs from current; 0 if none does
FirstOther(draws, current, i) ==
    IF i > 4 THEN 0
    ELSE IF ~EqualFold(draws[i], current) THEN i
    ELSE FirstOther(draws, current, i + 1)

\* draws[i] is options[rng.Intn(len(options))] of the i-th call of rng.Intn
pickRandom(options, current, draws) ==
    IF options = {} THEN current
    ELSE IF Cardinality(options) = 1 THEN CHOOSE o \in options : TRUE
    ELSE LET i == FirstOther(draws, current, 1)
         IN  IF i > 0 THEN draws[i] ELSE draws[5]

ColorModeNames == {"chromatic", "fire", "aurora", "mono"}

\* the draws of one randomizeVisuals call
NoDraws == [palette |-> <<>>, pattern |-> <<>>, color |-> <<>>]

Repeat(v) == [i \in 1..5 |-> v]

\* k draws of one option, then the other
Switch(k, first, then) == [i \in 1..5 |-> IF i <= k THEN first ELSE then]

RngDraws ==
    {[palette |-> Repeat(pc[1]), pattern |-> Switch(k, first, then), color |-> Repeat(pc[2])] :
        pc \in {<<"box", "fire">>, <<"default", "mono">>}, k \in {3, 4, 5},
        first \in {"flash", "ripple"}, then \in {"flash", "ripple", "spark"}}

\* randomizeVisuals at time now
randomizeVisuals(a, now, draws) ==
    LET palette == pickRandom(PaletteNames, a.renderer.paletteName, draws.palette)
        pattern == pickRandom(PatternNames, a.renderer.patternName, draws.pattern)
        color == pickRandom(ColorModeNames, a.renderer.colorMode, draws.color)
    IN  [a EXCEPT !.renderer = Configure(@, palette, pattern, color, TRUE),
                  !.Pattern = pattern,
                  !.ColorMode = color,
                  !.lastRandom = now]

\* now.Sub(a.lastRandom) < a.randomInterval
IntervalNotOver(a, now) == now - a.lastRandom < a.randomInterval

maybeAutoRandomize(a, now, draws) ==
    IF ~a.autoRandomize THEN a
    ELSE IF IntervalNotOver(a, now) THEN a
    ELSE randomizeVisuals([a EXCEPT !.lastRandom = now], now, draws)

NoCheck ==
    [op |-> "none", at |-> 0, enabled |-> FALSE, interval |-> 0, since |-> 0,
     before |-> "", randomized |-> FALSE]

\* app.New at time 0 with cfg.RandomInterval <= 0 replaced by ten seconds
AutoNew(cfgAuto, cfgInterval, cfgPattern) ==
    [autoRandomize |-> cfgAuto,
     randomInterval |-> IF cfgInterval <= 0 THEN DefaultRandomInterval ELSE cfgInterval,
     lastRandom |-> 0,
     renderer |-> NewWithBackend(80, 24, "", cfgPattern, "", "high", TRUE, FALSE),
     Pattern |-> "", ColorMode |-> "",
     now |-> 0, randomizedAt |-> 0, check |-> NoCheck, settingsLeft |-> 0]

AutoIdle == auto = AutoNew(FALSE, 0, "")


Intervals == {2, 3}

AutoInit ==
    \E cfgAuto \in BOOLEAN, cfgInterval \in Intervals, cfgPattern \in {"", "ripple"} :
        auto = [AutoNew(cfgAuto, cfgInterval, cfgPattern) EXCEPT !.settingsLeft = MaxSettings]

\* the record of one check or randomization for the properties
Checked(a, op, now, next) ==
    [op |-> op, at |-> now, enabled |-> a.autoRandomize, interval |-> a.randomInterval,
     since |-> now - a.randomizedAt, before |-> a.renderer.patternName,
     randomized |-> next.lastRandom = now]

\* a tick of Run: the clock has moved on, step has run, then maybeAutoRandomize
AutoTick ==
    /\ auto.now < MaxClock
    /\ \E d \in {1, 2}, draws \in RngDraws :
        LET now == auto.now + d
            next == maybeAutoRandomize(auto, now, draws)
            chk == Checked(auto, "tick", now, next)
        IN  auto' = [next EXCEPT !.now = now, !.check = chk,
                                 !.randomizedAt = IF chk.randomized THEN now ELSE @]

\* the randomize key: Run calls randomizeVisuals
ManualRandomize ==
    /\ auto.now < MaxClock
    /\ auto.settingsLeft > 0
    /\ \E d \in {0, 1}, draws \in RngDraws :
        LET now == auto.now + d
            next == randomizeVisuals(auto, now, draws)
        IN  auto' = [next EXCEPT !.now = now, !.check = Checked(auto, "key", now, next),
                                 !.randomizedAt = now, !.settingsLeft = @ - 1]

\* App.SetAutoRandomize from the control panel
SetAutoRandomize ==
    /\ auto.settingsLeft > 0
    /\ \E v \in BOOLEAN :
        auto' = [auto EXCEPT !.autoRandomize = v, !.settingsLeft = @ - 1]

\* App.SetRandomInterval from the control panel
SetRandomInterval ==
    /\ auto.settingsLeft > 0
    /\ \E v \in Intervals \cup {0} :
        auto' = [auto EXCEPT !.randomInterval = v, !.settingsLeft = @ - 1]

-----------------------------------------------------------------------------
(* internal/audio: Initialize and Terminate, each behind a sync.Once, and  *)
(* the PortAudio library they wrap.  Several goroutines call them.         *)

NoErr == "nil"
ErrPortAudio == "portaudio: initialization failed"

\* a sync.Once: the done flag and the goroutine inside Do (0: none)
NewOnce == [done |-> FALSE, holder |-> 0]

\* Once.Do returns at once, f having completed
OnceSkips(once) == once.done

\* Once.Do runs f in the calling goroutine
OnceRuns(once) == ~once.done /\ once.holder = 0

OnceBegin(once, p) == [once EXCEPT !.holder = p]

OnceEnd(once) == [done |-> TRUE, holder |-> 0]

CallerIds == 1..MaxCallers

IdleCaller == [pc |-> "idle", err |-> NoErr, returned |-> <<>>]

PaStart(nCalls) ==
    /\ pa = [initOnce |-> NewOnce, termOnce |-> NewOnce, initErr |-> NoErr,
             lib |-> "none", initRuns |-> 0, initResult |-> NoErr,
             termRuns |-> 0, termFound |-> "none", callsLeft |-> nCalls]
    /\ callers = [p \in CallerIds |-> IdleCaller]

PaIdle == PaStart(0)


PaInit == PaStart(MaxAudioCalls)

\* a goroutine calls audio.Initialize
InitializeCall(p) ==
    /\ callers[p].pc = "idle"
    /\ pa.callsLeft > 0
    /\ callers' = [callers EXCEPT ![p].pc = "initOnce"]
    /\ pa' = [pa EXCEPT !.callsLeft = @ - 1]

\* initOnce.Do: f has completed already
InitSkip(p) ==
    /\ callers[p].pc = "initOnce"
    /\ OnceSkips(pa.initOnce)
    /\ callers' = [callers EXCEPT ![p].pc = "initReturn"]
    /\ pa' = pa

\* initOnce.Do runs f, which calls portaudio.Initialize
InitEnter(p) ==
    /\ callers[p].pc = "initOnce"
    /\ OnceRuns(pa.initOnce)
    /\ callers' = [callers EXCEPT ![p].pc = "initLib"]
    /\ pa' = [pa EXCEPT !.initOnce = OnceBegin(@, p), !.lib = "initializing",
                        !.initRuns = @ + 1]

\* portaudio.Initialize returns: the library is up, or it failed
InitLib(p) ==
    /\ callers[p].pc = "initLib"
    /\ \E err \in {NoErr, ErrPortAudio} :
        /\ callers' = [callers EXCEPT ![p].pc = "initStore", ![p].err = err]
        /\ pa' = [pa EXCEPT !.lib = IF err = NoErr THEN "up" ELSE "failed",
                            !.initResult = err]

\* initErr = ...; f and Do return
InitStore(p) ==
    /\ callers[p].pc = "initStore"
    /\ callers' = [callers EXCEPT ![p].pc = "initReturn", ![p].err = NoErr]
    /\ pa' = [pa EXCEPT !.initErr = callers[p].err, !.initOnce = OnceEnd(@)]

\* return initErr
InitReturn(p) ==
    /\ callers[p].pc = "initReturn"
    /\ callers' = [callers EXCEPT ![p].pc = "idle",
                                  ![p].returned = Append(@, pa.initErr)]
    /\ pa' = pa

\* a goroutine calls audio.Terminate
TerminateCall(p) ==
    /\ callers[p].pc = "idle"
    /\ pa.callsLeft > 0
    /\ callers' = [callers EXCEPT ![p].pc = "termCheck"]
    /\ pa' = [pa EXCEPT !.callsLeft = @ - 1]

\* if initErr != nil { return }
TermGuard(audio) == audio.initErr # NoErr

TermCheck(p) ==
    /\ callers[p].pc = "termCheck"
    /\ callers' = [callers EXCEPT ![p].pc = IF TermGuard(pa) THEN "idle" ELSE "termOnce"]
    /\ pa' = pa

\* termOnce.Do: f has completed already
TermSkip(p) ==
    /\ callers[p].pc = "termOnce"
    /\ OnceSkips(pa.termOnce)
    /\ callers' = [callers EXCEPT ![p].pc = "idle"]
    /\ pa' = pa

\* termOnce.Do runs f
TermEnter(p) ==
    /\ callers[p].pc = "termOnce"
    /\ OnceRuns(pa.termOnce)
    /\ callers' = [callers EXCEPT ![p].pc = "termLib"]
    /\ pa' = [pa EXCEPT !.termOnce = OnceBegin(@, p)]

\* portaudio.Terminate runs; f and Do return
TermLib(p) ==
    /\ callers[p].pc = "termLib"
    /\ callers' = [callers EXCEPT ![p].pc = "idle"]
    /\ pa' = [pa EXCEPT !.termOnce = OnceEnd(@), !.termRuns = @ + 1,
                        !.termFound = pa.lib,
                        !.lib = IF @ = "up" THEN "down" ELSE @]

-----------------------------------------------------------------------------
(* internal/analyzer: nextPow2 and the window size of Analyze, applied to  *)
(* one sample count.                                                       *)

NoWindow(n) == [n |-> n, pow |-> 0, size |-> 0]

WinIdle == win = NoWindow(0)

\* len(samples) runs over 0..MaxSamples; nextPow2 also takes negative arguments
WinInit == \E n \in (-2)..MaxSamples : win = NoWindow(n)

\* nextPow2(n)
NextPow2Call ==
    /\ win.pow = 0
    /\ win' = [win EXCEPT !.pow = nextPow2(win.n)]

\* the size computed at the head of Analyze for a non-empty sample block
WindowSizeCall ==
    /\ win.size = 0
    /\ win.n > 0
    /\ win' = [win EXCEPT !.size = windowSize(win.n)]

-----------------------------------------------------------------------------
(* internal/analyzer and internal/app: GateFeatures called directly, and   *)
(* the part of App.step that gates the analyzer's Features with            *)
(* cfg.NoiseFloor and hands them to ApplyFeatures and UpdateTime.          *)

\* values of cfg.NoiseFloor: negative, the default 0, and two inside (0,1)
Floors == {0 - 100, 0, 50, 200}

\* Features as Analyze returns them: every level within [0,1], with or
\* without the drop flag
AnalyzedFeatures ==
    [Bass : {0, 50, 600}, Mid : {30}, Treble : {0}, Overall : {50, 400},
     BeatStrength : {0, 900}, IsDrop : BOOLEAN]

\* op: the last operation; f: the Features it was given; features: the
\* Features after the gate; before: the Parameters before the tick
GateStart(floor, n) ==
    [floor |-> floor, op |-> "none", f |-> ZeroFeatures, features |-> ZeroFeatures,
     dt |-> 0, before |-> Defaults, params |-> Defaults, left |-> n]

GateIdle == gate = GateStart(0, 0)

GateInit == \E floor \in Floors : gate = GateStart(floor, MaxGated)

\* analyzer.GateFeatures(f, floor), with any floor
GateFeaturesCall ==
    /\ gate.left > 0
    /\ \E f \in AnalyzedFeatures :
        gate' = [gate EXCEPT !.op = "GateFeatures", !.f = f,
                             !.features = GateFeatures(f, gate.floor),
                             !.left = @ - 1]

\* one tick of App.step from the return of Analyze to the end of UpdateTime
GatedStep ==
    /\ gate.left > 0
    /\ \E f \in AnalyzedFeatures, delta \in ParamDeltas :
        LET features == IF gate.floor > 0 THEN GateFeatures(f, gate.floor) ELSE f
        IN  gate' = [gate EXCEPT !.op = "step", !.f = f, !.features = features,
                                 !.dt = delta, !.before = gate.params,
                                 !.params = UpdateTime(ApplyFeatures(gate.params, features,
                                                                     delta), delta),
                                 !.left = @ - 1]

-----------------------------------------------------------------------------
(* internal/app: the frame stride.  New stores cfg.FrameStride, App.step   *)
(* updates the Parameters on every tick and renders on some of them.       *)

\* values of cfg.FrameStride
FrameStrides == {0 - 1, 0, 1, 2, 3}

\* a stride test that lets the counter reach the stride
skipFrameOffByOne(frameStride, skipCounter) ==
    frameStride > 1 /\ skipCounter < frameStride

\* if a.frameStride > 1 { if a.skipCounter < a.frameStride-1 { skip } }
skipFrame(frameStride, skipCounter) ==
    frameStride > 1 /\ skipCounter < frameStride - 1

\* ticks: calls of step so far; renders, presents: calls of Render and of
\* frame.Present (or writes of the frame to stdout); renderedAt: the tick of
\* the last Render; shown: the Parameters handed to it; pc: "tick" between
\* steps, "present" after Render, "returned" after step returned an error
PaceNew(cfgFrameStride, n) ==
    [cfgFrameStride |-> cfgFrameStride,
     frameStride |-> IF cfgFrameStride <= 0 THEN 1 ELSE cfgFrameStride,
     skipCounter |-> 0, params |-> Defaults, features |-> ZeroFeatures, dt |-> 0,
     ticks |-> 0, renders |-> 0, presents |-> 0, renderedAt |-> 0, shown |-> Defaults,
     pc |-> "tick", left |-> n]

PaceIdle == pace = PaceNew(1, 0)

PaceInit == \E cfgFrameStride \in FrameStrides : pace = PaceNew(cfgFrameStride, MaxPaceTicks)

\* step from its entry to the frame stride test and, on a tick that is not
\* skipped, to the return of Render
PaceStep ==
    /\ pace.pc = "tick"
    /\ pace.left > 0
    /\ \E features \in {SilentFeatures, BeatFeatures}, delta \in ParamDeltas :
        /\ features # SilentFeatures => delta = TickDelta
        /\ LET params == UpdateTime(ApplyFeatures(pace.params, features, delta), delta)
                skip == skipFrame(pace.frameStride, pace.skipCounter)
                updated == [pace EXCEPT !.params = params, !.features = features,
                                        !.dt = delta, !.ticks = @ + 1, !.left = @ - 1]
           IN  pace' = IF skip
                       THEN [updated EXCEPT !.skipCounter = @ + 1]
                       ELSE [updated EXCEPT !.skipCounter = IF pace.frameStride > 1 THEN 0 ELSE @,
                                            !.renders = @ + 1,
                                            !.renderedAt = pace.ticks + 1,
                                            !.shown = params, !.pc = "present"]

\* frame.Present(statusText), or the frame written to stdout; an error ends Run
PacePresent ==
    /\ pace.pc = "present"
    /\ \E err \in PresentResults(FALSE) :
        pace' = [pace EXCEPT !.presents = @ + 1,
                             !.pc = IF err = Nil THEN "tick" ELSE "returned"]

-----------------------------------------------------------------------------
(* Specifications: one per subsystem; the other subsystems stay idle.      *)

LateIdle == AutoIdle /\ PaIdle /\ WinIdle /\ GateIdle /\ PaceIdle

ExtraIdle == ParIdle /\ CapIdle /\ RunIdle /\ CellIdle /\ LateIdle

InitAnalyzer == AnaInit({0, 3}, MaxCalls, MaxCalls) /\ RenIdle /\ PoolIdle /\ AppIdle /\ ExtraIdle

InitRings == AnaInit({3, 50}, MaxRingCalls, MaxVaried) /\ RenIdle /\ PoolIdle /\ AppIdle /\ ExtraIdle

NextAnalyzer == AnalyzeCall /\ UNCHANGED <<renVars, poolVars, appVars, extraVars>>

SpecAnalyzer == InitAnalyzer /\ [][NextAnalyzer]_vars

SpecRings == InitRings /\ [][NextAnalyzer]_vars

InitRenderer == RenInit /\ AnaIdle /\ PoolIdle /\ AppIdle /\ ExtraIdle

NextRenderer ==
    \/ NewCall /\ UNCHANGED <<anaVars, poolVars, appVars, extraVars>>
    \/ ConfigureCall /\ UNCHANGED <<anaVars, poolVars, appVars, extraVars>>
    \/ SetQualityCall /\ UNCHANGED <<anaVars, poolVars, appVars, extraVars>>
    \/ ResizeCall /\ UNCHANGED <<anaVars, poolVars, appVars, extraVars>>
    \/ RenderCall /\ UNCHANGED <<anaVars, poolVars, appVars, extraVars>>

SpecRenderer == InitRenderer /\ [][NextRenderer]_vars

InitPool == PoolInit /\ AnaIdle /\ RenIdle /\ AppIdle /\ ExtraIdle

NextPool ==
    \/ Spawn /\ UNCHANGED <<anaVars, renVars, appVars, extraVars>>
    \/ Produce /\ UNCHANGED <<anaVars, renVars, appVars, extraVars>>
    \/ Close /\ UNCHANGED <<anaVars, renVars, appVars, extraVars>>
    \/ WaitAndReturn /\ UNCHANGED <<anaVars, renVars, appVars, extraVars>>
    \/ \E w \in WorkerIds : Receive(w) /\ UNCHANGED <<anaVars, renVars, appVars, extraVars>>
    \/ \E w \in WorkerIds : Row(w) /\ UNCHANGED <<anaVars, renVars, appVars, extraVars>>
    \/ \E w \in WorkerIds : Exit(w) /\ UNCHANGED <<anaVars, renVars, appVars, extraVars>>

\* the scheduler runs some goroutine as long as one can take a step
PoolFairness == WF_vars(NextPool)

SpecPool == InitPool /\ [][NextPool]_vars /\ PoolFairness

\* what the tick loop and the web server leave alone
appRest ==
    <<out, lastIn, calls, surge, elapsed, gap, suppressed, callsLeft, variedLeft,
      asked, opsLeft, poolVars, extraVars>>

InitApp == AppInit /\ AnaIdle /\ PoolIdle /\ ExtraIdle

NextApp ==
    \/ TickAnalyze /\ UNCHANGED appRest
    \/ TickApply /\ UNCHANGED appRest
    \/ TickTime /\ UNCHANGED appRest
    \/ TickLock /\ UNCHANGED appRest
    \/ TickStats /\ UNCHANGED appRest
    \/ TickRenderBegin /\ UNCHANGED appRest
    \/ TickRenderEnd /\ UNCHANGED appRest
    \/ TickAuto /\ UNCHANGED appRest
    \/ WebRequest /\ UNCHANGED appRest
    \/ WebGetParamsLock /\ UNCHANGED appRest
    \/ WebGetParams /\ UNCHANGED appRest
    \/ WebSetParamsLock /\ UNCHANGED appRest
    \/ WebSetParams /\ UNCHANGED appRest
    \/ WebConfigure /\ UNCHANGED appRest
    \/ WebSetQuality /\ UNCHANGED appRest
    \/ WebDimsLock /\ UNCHANGED appRest
    \/ WebResize /\ UNCHANGED appRest
    \/ WebStatusLock /\ UNCHANGED appRest
    \/ WebStatus /\ UNCHANGED appRest

SpecApp == InitApp /\ [][NextApp]_vars

\* the groups that stay idle in the specifications below
firstVars == <<anaVars, renVars, poolVars, appVars, lateVars>>

FirstIdle == AnaIdle /\ RenIdle /\ PoolIdle /\ AppIdle /\ LateIdle

InitParams == ParInit /\ CapIdle /\ RunIdle /\ CellIdle /\ FirstIdle

NextParams ==
    \/ ApplyFeaturesCall /\ UNCHANGED <<firstVars, capVars, runVars, cell>>
    \/ UpdateTimeCall /\ UNCHANGED <<firstVars, capVars, runVars, cell>>

SpecParams == InitParams /\ [][NextParams]_vars

InitCapture == CapInit /\ ParIdle /\ RunIdle /\ CellIdle /\ FirstIdle

NextCapture ==
    \/ CbCall /\ UNCHANGED <<firstVars, parVars, runVars, cell>>
    \/ CbLock /\ UNCHANGED <<firstVars, parVars, runVars, cell>>
    \/ CbMix /\ UNCHANGED <<firstVars, parVars, runVars, cell>>
    \/ CbUnlock /\ UNCHANGED <<firstVars, parVars, runVars, cell>>
    \/ RdCall /\ UNCHANGED <<firstVars, parVars, runVars, cell>>
    \/ RdRLock /\ UNCHANGED <<firstVars, parVars, runVars, cell>>
    \/ RdCopy /\ UNCHANGED <<firstVars, parVars, runVars, cell>>
    \/ RdCopy2 /\ UNCHANGED <<firstVars, parVars, runVars, cell>>
    \/ RdReturn /\ UNCHANGED <<firstVars, parVars, runVars, cell>>

SpecCapture == InitCapture /\ [][NextCapture]_vars

InitRun == RunInit /\ ParIdle /\ CapIdle /\ CellIdle /\ FirstIdle

runRest == <<firstVars, parVars, capVars, cell>>

\* the steps of the goroutine inside a tick
TickSteps == StepUpdate \/ RenderTile \/ RenderDone \/ StepPresent \/ StepCheck

NextRun ==
    \/ Cancel /\ UNCHANGED runRest
    \/ TickerFire /\ UNCHANGED runRest
    \/ KeyPress /\ UNCHANGED runRest
    \/ SelectDone /\ UNCHANGED runRest
    \/ SelectInput /\ UNCHANGED runRest
    \/ SelectTick /\ UNCHANGED runRest
    \/ StepUpdate /\ UNCHANGED runRest
    \/ RenderTile /\ UNCHANGED runRest
    \/ RenderDone /\ UNCHANGED runRest
    \/ StepPresent /\ UNCHANGED runRest
    \/ StepCheck /\ UNCHANGED runRest

\* the goroutine keeps running inside a tick; select chooses among its ready
\* cases at random, so a case that is ready again and again is chosen in the end
RunFairness ==
    /\ WF_vars(TickSteps /\ UNCHANGED runRest)
    /\ SF_vars(SelectDone /\ UNCHANGED runRest)
    /\ SF_vars(SelectInput /\ UNCHANGED runRest)

SpecRun == InitRun /\ [][NextRun]_vars /\ RunFairness

InitPixel == CellIdle /\ ParIdle /\ CapIdle /\ RunIdle /\ FirstIdle

NextPixel == EvaluateCell /\ UNCHANGED <<firstVars, parVars, capVars, runVars>>

SpecPixel == InitPixel /\ [][NextPixel]_vars

earlyVars == <<anaVars, renVars, poolVars, appVars, parVars, capVars, runVars, cell>>

EarlyIdle == AnaIdle /\ RenIdle /\ PoolIdle /\ AppIdle /\ ParIdle /\ CapIdle /\ RunIdle /\ CellIdle

InitAuto == AutoInit /\ PaIdle /\ WinIdle /\ GateIdle /\ PaceIdle /\ EarlyIdle

NextAuto ==
    \/ AutoTick /\ UNCHANGED <<earlyVars, pa, callers, win, gate, pace>>
    \/ ManualRandomize /\ UNCHANGED <<earlyVars, pa, callers, win, gate, pace>>
    \/ SetAutoRandomize /\ UNCHANGED <<earlyVars, pa, callers, win, gate, pace>>
    \/ SetRandomInterval /\ UNCHANGED <<earlyVars, pa, callers, win, gate, pace>>

SpecAuto == InitAuto /\ [][NextAuto]_vars

InitAudio == PaInit /\ AutoIdle /\ WinIdle /\ GateIdle /\ PaceIdle /\ EarlyIdle

NextAudio ==
    \E p \in CallerIds :
        \/ InitializeCall(p) /\ UNCHANGED <<earlyVars, auto, win, gate, pace>>
        \/ InitSkip(p) /\ UNCHANGED <<earlyVars, auto, win, gate, pace>>
        \/ InitEnter(p) /\ UNCHANGED <<earlyVars, auto, win, gate, pace>>
        \/ InitLib(p) /\ UNCHANGED <<earlyVars, auto, win, gate, pace>>
        \/ InitStore(p) /\ UNCHANGED <<earlyVars, auto, win, gate, pace>>
        \/ InitReturn(p) /\ UNCHANGED <<earlyVars, auto, win, gate, pace>>
        \/ TerminateCall(p) /\ UNCHANGED <<earlyVars, auto, win, gate, pace>>
        \/ TermCheck(p) /\ UNCHANGED <<earlyVars, auto, win, gate, pace>>
        \/ TermSkip(p) /\ UNCHANGED <<earlyVars, auto, win, gate, pace>>
        \/ TermEnter(p) /\ UNCHANGED <<earlyVars, auto, win, gate, pace>>
        \/ TermLib(p) /\ UNCHANGED <<earlyVars, auto, win, gate, pace>>

SpecAudio == InitAudio /\ [][NextAudio]_vars

InitWindow == WinInit /\ AutoIdle /\ PaIdle /\ GateIdle /\ PaceIdle /\ EarlyIdle

NextWindow ==
    \/ NextPow2Call /\ UNCHANGED <<earlyVars, auto, pa, callers, gate, pace>>
    \/ WindowSizeCall /\ UNCHANGED <<earlyVars, auto, pa, callers, gate, pace>>

SpecWindow == InitWindow /\ [][NextWindow]_vars

InitGate == GateInit /\ AutoIdle /\ PaIdle /\ WinIdle /\ PaceIdle /\ EarlyIdle

NextGate ==
    \/ GateFeaturesCall /\ UNCHANGED <<earlyVars, auto, pa, callers, win, pace>>
    \/ GatedStep /\ UNCHANGED <<earlyVars, auto, pa, callers, win, pace>>

SpecGate == InitGate /\ [][NextGate]_vars

InitPace == PaceInit /\ AutoIdle /\ PaIdle /\ WinIdle /\ GateIdle /\ EarlyIdle

NextPace ==
    \/ PaceStep /\ UNCHANGED <<earlyVars, auto, pa, callers, win, gate>>
    \/ PacePresent /\ UNCHANGED <<earlyVars, auto, pa, callers, win, gate>>

SpecPace == InitPace /\ [][NextPace]_vars

-----------------------------------------------------------------------------
(* Properties of the analyzer.                                             *)

\* C1: a drop that follows an earlier drop is flagged only after at least 1.0 s of
\* deltaTime has elapsed over the calls in between, so every call before that
\* returns IsDrop = false even when the bass-surge condition holds again.
Thm_C1_DropCooldown ==
    /\ (out.IsDrop /\ gap >= 0) => gap >= DropCooldownSeconds
    /\ (elapsed > 0 /\ elapsed < DropCooldownSeconds) => ~out.IsDrop

\* a surge was suppressed during a cooldown and a later drop was flagged
Wit_C1_SecondDrop ==
    suppressed /\ out.IsDrop /\ gap >= DropCooldownSeconds

\* C11: across every Analyze call dropCooldown changes in only two ways: a
\* call that flags a drop sets it to exactly 1.0; any other call leaves it
\* alone or lowers it by the call's deltaTime (a running cooldown on a
\* non-empty block), so it never increases other than by that reset.
Thm_C11_CooldownSteps ==
    [][calls' = calls + 1 =>
        IF out'.IsDrop
        THEN an'.dropCooldown = DropCooldownSeconds
        ELSE /\ an'.dropCooldown <= an.dropCooldown
             /\ an'.dropCooldown \in {an.dropCooldown, an.dropCooldown - lastIn'.dt}
             /\ (an.dropCooldown > 0 /\ lastIn'.blk.n > 0)
                    => an'.dropCooldown = an.dropCooldown - lastIn'.dt]_vars

\* a call without a drop has just lowered a running cooldown part of the way
Wit_C11_CountingDown ==
    /\ calls > 1
    /\ ~out.IsDrop
    /\ lastIn.blk.n > 0
    /\ an.dropCooldown > 0
    /\ an.dropCooldown < DropCooldownSeconds

InUnit(v) == 0 <= v /\ v <= One

\* C18: for every non-empty sample block, every deltaTime and every reachable
\* Analyzer state, the returned Bass, Mid, Treble, Overall and BeatStrength
\* each lie in [0,1].
Thm_C18_FeaturesInUnit ==
    [][(calls' = calls + 1 /\ lastIn'.blk.n > 0) =>
        /\ InUnit(out'.Bass)
        /\ InUnit(out'.Mid)
        /\ InUnit(out'.Treble)
        /\ InUnit(out'.Overall)
        /\ InUnit(out'.BeatStrength)]_vars

\* a call that repeats a loud block: Bass is cut off at 1 while the beat
\* strength, with no rise in bass, comes from the decaying pulse alone
Wit_C18_CappedBass ==
    /\ calls > 1
    /\ lastIn.blk.n > 0
    /\ out.Bass = One
    /\ out.Treble < One
    /\ out.BeatStrength > 0
    /\ out.BeatStrength < One

\* the band energy a call hands to each envelope
BandOf(band, blk) ==
    IF band = "bassPeak" THEN blk.bass
    ELSE IF band = "midPeak" THEN blk.mid
    ELSE blk.treble

\* C19: each band's peak envelope is >= 0 after every Analyze call; on a call
\* whose band energy does not exceed the envelope the envelope does not
\* increase, and it increases only on a call whose band energy is above it,
\* never rising past that input.
Thm_C19_EnvelopeSteps ==
    [][calls' = calls + 1 =>
        \A band \in {"bassPeak", "midPeak", "treblePeak"} :
            LET input == BandOf(band, lastIn'.blk)
            IN  /\ an'[band] >= 0
                /\ input <= an[band] => an'[band] <= an[band]
                /\ an'[band] > an[band] => (input > an[band] /\ an'[band] <= input)]_vars

\* an envelope that rose on a loud block has just been released by a quieter one
Wit_C19_Released ==
    /\ calls > 1
    /\ lastIn.blk.n > 0
    /\ an.bassPeak > lastIn.blk.bass
    /\ an.midPeak > lastIn.blk.mid
    /\ an.treblePeak > 0

\* C2: Analyze with an empty sample slice returns the all-zero Features and
\* leaves every Analyzer field unchanged, for any deltaTime and prior state.
Thm_C2_EmptyNoop ==
    [][(calls' = calls + 1 /\ lastIn'.blk.n = 0) => (an' = an /\ out' = ZeroFeatures)]_vars

\* an empty call made on an analyzer that has history and a running cooldown
Wit_C2_EmptyAfterHistory ==
    /\ calls >= 2
    /\ lastIn.blk.n = 0
    /\ lastIn.dt = 1000
    /\ an.bassHistory # <<>>
    /\ an.dropCooldown > 0
    /\ an.bufferLen = MaxWindow
    /\ out = ZeroFeatures

\* the step is an Analyze call with a non-empty sample block
AnalyzeStep == calls' = calls + 1 /\ lastIn'.blk.n > 0

\* clamp(14 x (bass - lastBass), 0, 1) of the call the step makes
Instantaneous == clamp(14 * (lastIn'.blk.bass - an.lastBass), 0, One)

\* C25: on every non-empty Analyze call a beat strength clamp(14 x (bass -
\* lastBass), 0, 1) above 0.12 latches the pulse to 1.0, and the pulse is then
\* multiplied by 0.88 in every case: after the call the pulse is in [0, 0.88],
\* it is 0.88 on a latching call and below its old value otherwise (a pulse
\* of 0 stays 0), and BeatStrength is min(1, strength + 0.7 x pulse).
Thm_C25_BeatPulse ==
    [][AnalyzeStep =>
            /\ 0 <= an'.beatPulse /\ an'.beatPulse <= 880
            /\ Instantaneous > 120 => an'.beatPulse = 880
            /\ Instantaneous <= 120 =>
                    /\ an'.beatPulse = (an.beatPulse * 88) \div 100
                    /\ an.beatPulse > 0 => an'.beatPulse < an.beatPulse
            /\ out'.BeatStrength = Min(One, Instantaneous + (an'.beatPulse * 7) \div 10)]_vars

\* the second call after a latch: the pulse has decayed twice and still lifts
\* the BeatStrength of a call without any rise of the bass
Wit_C25_PulseLingers ==
    /\ calls >= 3
    /\ an.beatPulse = 681
    /\ out.BeatStrength = 476

PowersOfTwo == {2 ^ k : k \in 0..12}

\* C24: for n in 1..2048 nextPow2(n) is the smallest power of two that is at
\* least n, and nextPow2(n) = 1 for n <= 0; the window size of Analyze is one
\* of 256, 512, 1024 and 2048.
Thm_C24_NextPow2 ==
    /\ (win.pow # 0 /\ win.n <= 0) => win.pow = 1
    /\ (win.pow # 0 /\ win.n >= 1 /\ win.n <= MaxWindow) =>
            /\ win.pow \in PowersOfTwo
            /\ win.pow >= win.n
            /\ \A q \in PowersOfTwo : q >= win.n => win.pow <= q
    /\ win.size # 0 => win.size \in {256, 512, 1024, 2048}

\* 257 samples: nextPow2 gives 512, which is also the window size
Wit_C24_RoundedUp ==
    /\ win.n = 257
    /\ win.pow = 512
    /\ win.size = 512

-----------------------------------------------------------------------------
(* Properties of the parameters.                                           *)

\* C12: on an ApplyFeatures call with non-silent features exactly one of three
\* outcomes applies, drop before beat: with IsDrop, BeatDistortion = 1.5,
\* BeatZoom = 1.2, DistortAmplitude = 1.0 and LastEffectTime = Time whatever
\* BeatStrength is; else with BeatStrength > 0.16 / BeatSensitivity,
\* BeatDistortion = 1.0, BeatZoom = 0.8 and LastEffectTime = Time; otherwise
\* BeatDistortion, BeatZoom and LastEffectTime are left as they were.
Thm_C12_DropBeatOrNothing ==
    [][loudLeft' = loudLeft - 1 =>
        LET feat == applied'.feat
        IN  IF feat.IsDrop
            THEN /\ prm'.BeatDistortion = 1500
                 /\ prm'.BeatZoom = 1200
                 /\ prm'.DistortAmplitude = One
                 /\ prm'.LastEffectTime = prm.Time
            ELSE IF feat.BeatStrength * prm.BeatSensitivity > 160 * One
            THEN /\ prm'.BeatDistortion = One
                 /\ prm'.BeatZoom = 800
                 /\ prm'.LastEffectTime = prm.Time
            ELSE /\ prm'.BeatDistortion = prm.BeatDistortion
                 /\ prm'.BeatZoom = prm.BeatZoom
                 /\ prm'.LastEffectTime = prm.LastEffectTime]_vars

\* a drop with no beat strength, applied as the last non-silent call after
\* the clock has advanced
Wit_C12_DropWithoutBeat ==
    /\ applied.feat = QuietDropFeatures
    /\ prm.Time > 0
    /\ prm.LastEffectTime = prm.Time
    /\ prm.BeatDistortion = 1500
    /\ prm.BeatZoom = 1200
    /\ loudLeft = 0
    /\ ~applied.timed

MaxBrightness == 2500

RECURSIVE Pow2(_)
Pow2(n) == IF n <= 0 THEN 1 ELSE 2 * Pow2(n - 1)

Thresholds == {40, 100, One}

\* ticks of at least 1/60 s after which a brightness of at most 2.5, halved
\* on every tick, is below the threshold
FadeTicks ==
    [thr \in Thresholds |->
        CHOOSE n \in 0..12 :
            /\ thr * Pow2(n) > MaxBrightness
            /\ \A k \in 0..(n - 1) : thr * Pow2(k) <= MaxBrightness]

TicksToFade(thr) == FadeTicks[thr]

\* C13: every call ApplyFeatures(Features{}, delta) takes the silence-decay
\* path and moves Amplitude, Brightness and NoiseStrength toward 0 without
\* increasing them or passing 0; after enough such calls in a row Brightness
\* is below any fixed positive threshold.
Thm_C13_SilenceDecay ==
    /\ [][silentRun' = silentRun + 1 =>
            /\ prm' = applySilenceDecay(prm, applied'.dt)
            /\ \A field \in {"Amplitude", "Brightness", "NoiseStrength"} :
                    0 <= prm'[field] /\ prm'[field] <= prm[field]]_vars
    /\ [](\A thr \in Thresholds :
            silentRun >= TicksToFade(thr) => prm.Brightness < thr)

\* silence after loud features: Brightness has reached 0 while Amplitude
\* is still on its way down
Wit_C13_FadedToBlack ==
    /\ silentRun >= 3
    /\ loudLeft < LoudBudget
    /\ prm.Brightness = 0
    /\ prm.Amplitude > 0

\* the step is the UpdateTime call that follows an ApplyFeatures call
UpdateTimeStep == ~applied.timed /\ applied'.timed

\* the step is an ApplyFeatures call
ApplyFeaturesStep == applied.timed /\ ~applied'.timed

-----------------------------------------------------------------------------
(* Properties of the capture ring buffer.                                  *)

\* the n most recent of the samples 1..last, oldest first, zeros before them
MostRecent(last, n) == [i \in 1..n |-> IF last - n + i > 0 THEN last - n + i ELSE 0]

\* C14: SamplesInto returns exactly len(buffer) samples, the most recent mono
\* samples stored by the callback, oldest first and newest last, with zeros
\* for samples not yet written, after blocks of any length and also when it
\* runs concurrently with the callback (never a partially written block).
Thm_C14_MostRecentSamples ==
    reader.returns > 0 =>
        /\ Len(reader.result) = Len(capture.buffer)
        /\ reader.result = reader.expect
        /\ reader.result = MostRecent(reader.expect[Len(reader.expect)], Len(capture.buffer))

\* SamplesInto has returned a buffer read across the wrap-around point, from
\* which older samples had been evicted, while a new block was waiting
Wit_C14_WrappedRead ==
    /\ reader.returns > 0
    /\ reader.pc = "idle"
    /\ reader.result = stored
    /\ reader.result[1] > 1
    /\ capture.index > 0
    /\ callback.pc = "lock"
    /\ callback.in # <<>>

\* C15: the capture callback never blocks on a reader: a SamplesInto call in
\* progress never makes the callback wait before it can store its block.
Cex_C15_CallbackNeverWaits ==
    ~(callback.pc = "lock" /\ capMu.readers > 0 /\ ~CanLock(capMu))

\* the callback is inside c.mu.Lock() with a block to store while SamplesInto
\* holds the read lock between its two copies
Wit_C15_CallbackWaitsForReader ==
    /\ callback.pc = "lock"
    /\ callback.in # <<>>
    /\ reader.pc = "copy2"
    /\ capMu.readers = 1
    /\ ~ENABLED CbLock

-----------------------------------------------------------------------------
(* Properties of the Run loop.                                             *)

\* C16: when a frame's Present reports ErrRendererQuit, Run stops ticking and
\* returns nil; any other error returned by a tick makes Run return that
\* error; in both cases no further tick runs afterwards.
Thm_C16_StopSignal ==
    /\ [][(run.pc = "check" /\ run.err # Nil /\ run' # run) =>
            /\ run'.pc = "returned"
            /\ run'.ret = IF run.err = ErrRendererQuit THEN Nil ELSE run.err]_vars
    /\ [][run.pc = "returned" => run' = run]_vars

\* Run has returned nil on the stop signal and leaves a pending tick untaken
Wit_C16_CleanExit ==
    /\ run.pc = "returned"
    /\ run.err = ErrRendererQuit
    /\ run.ret = Nil
    /\ ticker

\* Run is inside a tick: in step, in its render or in Present
InTick == run.pc \in {"step", "render", "present"}

\* C17: cancellation is checked only between ticks: once the context is
\* cancelled or a quit key event is delivered, a tick that has already started,
\* its render included, runs to completion, and Run then returns at a
\* following check instead of ticking forever.
Thm_C17_CancelBetweenTicks ==
    /\ [][(InTick /\ run' # run) =>
            /\ run'.pc \in {"step", "render", "present", "check"}
            /\ run'.pc = "present" => run.tilesLeft = 0]_vars
    /\ [][(run'.pc = "returned" /\ run.pc # "returned" /\ run'.ret = ErrCanceled)
            => run.pc = "select"]_vars
    /\ (ctxDone \/ QuitQueued) ~> (run.pc = "returned")

\* the context was cancelled while a render was in flight; Run finished that
\* tick, took another one at the next select and returned on the one after
Wit_C17_ReturnedAfterRender ==
    /\ stopAt = "render"
    /\ run.tickedAfterStop
    /\ run.pc = "returned"
    /\ run.ret = ErrCanceled
    /\ run.err = Nil

-----------------------------------------------------------------------------
(* Properties of the cell brightness.                                      *)

\* C20: with audio-reactive colouring enabled the brightness of a cell is
\* multiplied by the activation, so during silence (all-zero Features,
\* activation 0) every cell has brightness 0 and is drawn with the darkest
\* glyph, palette index 0, for every palette length.
Cex_C20_SilentCellsBlack ==
    (cell.evaluated /\ cell.colorOnAudio /\ cell.feat = ZeroFeatures) =>
        /\ cell.activation = 0
        /\ cell.brightness = 0
        /\ cell.index = 0

\* a silent cell of the default palette that is drawn with a glyph above the
\* darkest one although the activation is 0
Wit_C20_SilentGlyphDrawn ==
    /\ cell.evaluated
    /\ cell.colorOnAudio
    /\ cell.feat = ZeroFeatures
    /\ cell.activation = 0
    /\ cell.palette = "defaultPalette"
    /\ cell.brightness > 0
    /\ cell.index > 0

\* C28: on a fresh Analyzer neither of the first two Analyze calls with
\* non-empty samples returns IsDrop = true, whatever the samples are: the
\* bass history, which holds one entry per non-empty call, already contains
\* the current bass when its average is taken, and bass > 2 x average needs
\* at least three entries.
Thm_C28_NoDropInFirstTwoCalls ==
    (lastIn.blk.n > 0 /\ Len(an.bassHistory) <= 2) => ~out.IsDrop

\* the second non-empty call: the bass jumped from 0.01 to 0.3 with no
\* cooldown running, and no drop was reported
Wit_C28_SecondCallJumps ==
    /\ lastIn.blk = LoudBlock
    /\ an.bassHistory = <<QuietBlock.bass, LoudBlock.bass>>
    /\ an.dropCooldown <= 0
    /\ ~out.IsDrop

-----------------------------------------------------------------------------
(* Properties of the renderer.                                             *)

\* C3: after construction or Configure, whatever names were passed, the renderer
\* holds a registered (non-nil) pattern function, a non-empty palette and a valid
\* colour mode, and a Render that follows returns instead of panicking.
Cex_C3_UnknownNamesFallBack ==
    asked.configured =>
        /\ ren.pattern \in PatternFuncs
        /\ ren.palette \in DOMAIN PaletteLen
        /\ PaletteLen[ren.palette] > 0
        /\ ren.colorMode \in ColorModes
        /\ asked.lastOp = "Render" => frame.result = "returned"

\* the palette and the colour mode did fall back, the pattern did not, and the
\* Render that followed panicked on the nil pattern function
Wit_C3_NilPatternPanic ==
    /\ asked.lastOp = "Render"
    /\ asked.constructed
    /\ ren.patternName = "plasma"
    /\ ren.pattern = Nil
    /\ ren.paletteName = "nosuch"
    /\ ren.palette = "defaultPalette"
    /\ ren.colorMode = colorModeChromatic
    /\ frame.result = "panic"

GlyphCount(line) == Cardinality({i \in 1..Len(line) : line[i].k = "glyph"})

\* the glyphs of a line, left to right
Glyphs(line) == SelectSeq(line, LAMBDA tok : tok.k = "glyph")

\* the glyphs of row y of a frame rendered at time t, cell by cell
RowGlyphs(r, y, t) == [x \in 1..r.width |-> GlyphToken(samplePixel(r, x - 1, y, t))]

\* C8: the width and height of the renderer are the last positive ones asked for;
\* a Render at width W > 0 and height H > 0 returns H lines, line y holding the W
\* glyphs of row y, and a Render at width <= 0 or height <= 0 returns the empty
\* Frame.
Cex_C8_FrameDimensions ==
    /\ ren.width = asked.reqW
    /\ ren.height = asked.reqH
    /\ asked.lastOp = "Render" =>
        IF ren.width > 0 /\ ren.height > 0
        THEN /\ frame.result = "returned"
             /\ Len(frame.Lines) = ren.height
             /\ \A y \in 1..Len(frame.Lines) :
                    /\ GlyphCount(frame.Lines[y]) = ren.width
                    /\ Glyphs(frame.Lines[y]) = RowGlyphs(ren, y - 1, asked.t)
        ELSE frame = EmptyFrame

\* a frame of MaxDim lines of one glyph each, returned after a Resize call
Wit_C8_ResizedFrame ==
    /\ asked.lastOp = "Render"
    /\ asked.resizes = 1
    /\ ren.width = 1
    /\ ren.height = MaxDim
    /\ frame.result = "returned"
    /\ Len(frame.Lines) = MaxDim
    /\ \A y \in 1..MaxDim : GlyphCount(frame.Lines[y]) = 1

\* the same as C8 for a renderer whose pattern function is registered
FrameDimensionsWhenPatternSet ==
    /\ ren.width = asked.reqW
    /\ ren.height = asked.reqH
    /\ (asked.lastOp = "Render" /\ ren.pattern # Nil) =>
        IF ren.width > 0 /\ ren.height > 0
        THEN /\ frame.result = "returned"
             /\ Len(frame.Lines) = ren.height
             /\ \A y \in 1..Len(frame.Lines) :
                    /\ GlyphCount(frame.Lines[y]) = ren.width
                    /\ Glyphs(frame.Lines[y]) = RowGlyphs(ren, y - 1, asked.t)
        ELSE frame = EmptyFrame

\* the octave count that belongs to a quality preset
OctavesOf(quality) ==
    CASE quality = qualityEco -> 1
      [] quality = qualityBalanced -> 2
      [] quality = qualityHigh -> 4

\* C26: after construction and any sequence of SetQuality calls the quality of
\* the renderer is eco, balanced or high, an empty or unknown name having
\* selected balanced, and the noise octave count in effect is 1 for eco, 2 for
\* balanced and 4 for high, the one of the renderer's current quality.
Thm_C26_QualityAndOctaves ==
    asked.constructed =>
        /\ ren.quality \in QualityModes
        /\ asked.qualityName \in {"", "nosuch"} => ren.quality = qualityBalanced
        /\ noiseOctaves = OctavesOf(ren.quality)

\* a renderer whose last SetQuality call named an unknown preset: it is
\* balanced now, with two octaves
Wit_C26_UnknownSelectsBalanced ==
    /\ asked.constructed
    /\ asked.lastOp = "SetQuality"
    /\ asked.qualityName = "nosuch"
    /\ ren.quality = qualityBalanced
    /\ noiseOctaves = 2

\* C29: after construction and any sequence of Configure calls, also with
\* unknown names, PatternName() is one of PatternNames(), PaletteName() one of
\* PaletteNames() and ColorModeName() one of ColorModeNames(), and each name
\* is that of the option the renderer draws with.
Cex_C29_ReportedNamesAreOptions ==
    asked.constructed =>
        /\ ren.patternName \in PatternNames
        /\ ren.pattern = RegistryEntry(ren.patternName).fn
        /\ ren.paletteName \in PaletteNames
        /\ ren.palette = Palette(ren.paletteName)
        /\ ren.colorMode \in ColorModeNames

\* a renderer with a registered pattern that reports the palette "nosuch",
\* which is no palette, while it draws with the default palette
Wit_C29_UnknownPaletteReported ==
    /\ asked.constructed
    /\ asked.lastOp = "Configure"
    /\ ren.patternName \in PatternNames
    /\ ren.paletteName = "nosuch"
    /\ ren.paletteName \notin PaletteNames
    /\ ren.palette = "defaultPalette"

-----------------------------------------------------------------------------
(* Properties of the worker pool.                                          *)

DefaultColor == 15

\* what a terminal shows for a line: each glyph with the colour in force
RECURSIVE DecodeLine(_, _)
DecodeLine(line, color) ==
    IF line = <<>> THEN <<>>
    ELSE LET tok == Head(line)
         IN  CASE tok.k = "color" -> DecodeLine(Tail(line), tok.a)
               [] tok.k = "reset" -> DecodeLine(Tail(line), DefaultColor)
               [] OTHER -> <<[palette |-> tok.p, index |-> tok.a, fg |-> color]>>
                           \o DecodeLine(Tail(line), color)

\* the frame of a single-threaded loop over all cells
SequentialFrame(r, t, width, height) ==
    [i \in 1..height |-> [j \in 1..width |-> samplePixel(r, j - 1, i - 1, t)]]

\* C6: the frame the worker pool returns shows, cell for cell, the glyph and the
\* colour that a single-threaded loop over all cells computes, for every worker
\* count and every order in which the workers pick up the tiles.
Thm_C6_ParallelEqualsSequential ==
    pool.pc = "done" =>
        [i \in 1..Len(result.Lines) |-> DecodeLine(result.Lines[i], DefaultColor)]
            = SequentialFrame(pool.r, pool.t, pool.width, pool.height)

\* a coloured frame of three tiles, the first and the last rendered by worker 2,
\* the one in between by worker 1
Wit_C6_TilesOutOfOrder ==
    /\ pool.pc = "done"
    /\ pool.r.useANSI
    /\ pool.width = MaxDim
    /\ pool.height > 2 * TileHeight
    /\ written[0] = <<2>>
    /\ written[TileHeight] = <<1>>
    /\ written[2 * TileHeight] = <<2>>

\* at the return every worker has left and every row has been written once; at
\* no time has a row been written twice or is the tile queue full for the producer
PoolSafe ==
    /\ pool.pc = "done" =>
            /\ wg = 0
            /\ jobCh.closed /\ jobCh.buf = <<>>
            /\ \A w \in WorkerIds :
                    workers[w].pc = IF w <= pool.numWorkers THEN "done" ELSE "none"
            /\ \A y \in 0..(pool.height - 1) : Len(written[y]) = 1
    /\ pool.pc # "idle" => \A y \in DOMAIN written : Len(written[y]) <= 1
    /\ (pool.pc = "produce" /\ pool.start < pool.height) => Len(jobCh.buf) < jobCh.cap

\* C7: when Render returns every worker has left and every row has been written
\* exactly once; no row is ever written twice; the producer never finds the tile
\* queue full; and Render returns in the end.
Thm_C7_WaitsForAllWorkers == []PoolSafe /\ <>(pool.pc = "done")

\* every worker has rendered a tile of a frame of three tiles, the last tile a
\* short one rendered by another worker than the tile before it
Wit_C7_AllWorkersDone ==
    /\ pool.pc = "done"
    /\ pool.numWorkers = MaxProcs
    /\ pool.height = MaxHeight
    /\ Cardinality({written[y][1] : y \in 0..(pool.height - 1)}) = MaxProcs
    /\ written[2 * TileHeight] # written[2 * TileHeight - 1]

-----------------------------------------------------------------------------
(* Properties of the tick loop and the control panel.                      *)

\* C4: no Configure, SetQuality or Resize of the web server's handlers runs on the
\* renderer while the tick loop is inside Render.
Cex_C4_RendererOpsSerialised ==
    web.lastOp \in {"Configure", "SetQuality", "Resize"} => web.during # "rendering"

\* SetDimensions resized the renderer under a running Render, which then indexed
\* a slot that lines does not have
Wit_C4_ResizeUnderRender ==
    /\ web.lastOp = "Resize"
    /\ web.during = "rendering"
    /\ frame.result = "panic"
    /\ tick.pc = "crashed"

\* the tick loop is between its two writes to a.params
TickWritingParams == tick.pc = "time"

\* the tick loop is writing a.lastFeatures and a.lastFPS
TickWritingStats == tick.pc = "stats"

\* the web server is inside GetParams, SetParams, GetFeatures or GetFPS
WebInAccessor == "web" \in mu.readers \/ mu.writer = "web"

\* C5: while the tick loop is writing the Parameters, the last Features or the
\* last FPS it holds the write lock of a.mu, so no accessor of another goroutine
\* is inside its locked section at the same time.
Cex_C5_TickWritesUnderLock ==
    /\ (TickWritingParams \/ TickWritingStats) => mu.writer = "tick"
    /\ ~((TickWritingParams \/ TickWritingStats) /\ WebInAccessor)

\* GetParams returned a snapshot holding the Speed of the current tick and the
\* Time of the tick before
Wit_C5_TornSnapshot ==
    /\ web.pc = "setParams"
    /\ web.req.arg = 0
    /\ tick.pc = "time"
    /\ web.snapshot.Speed = tick.speedSet
    /\ web.snapshot.Speed # Defaults.Speed
    /\ web.snapshot.Time = Defaults.Time

\* true of a sequence that is an initial part of another
IsPrefix(s, t) == Len(s) <= Len(t) /\ \A i \in 1..Len(s) : s[i] = t[i]

\* C9: the steps of a tick run in the order analysis, ApplyFeatures, UpdateTime,
\* Render, one tick after the other; UpdateTime advances Time with the Speed that
\* ApplyFeatures set in this tick; and Render is given the Parameters and the
\* Features that this tick produced.
Cex_C9_TickOrder ==
    /\ IsPrefix(tick.steps, <<"analysis", "ApplyFeatures", "UpdateTime", "Render">>)
    /\ tick.pc \in {"lock", "stats", "render", "rendering", "auto"} =>
            tick.timeSpeed = tick.speedSet
    /\ tick.pc = "rendering" =>
            /\ tick.rendered = tick.produced
            /\ tick.renderedFeatures = tick.features

\* a stale snapshot written back by SetParams after UpdateTime: Render is given
\* a Time that this tick's UpdateTime did not produce
Wit_C9_StaleParamsRendered ==
    /\ tick.pc = "rendering"
    /\ web.lastOp = "SetParams"
    /\ web.req.arg = 0
    /\ tick.timeSpeed = tick.speedSet
    /\ tick.rendered.Time < tick.produced.Time

\* the same as C9 as long as no SetParams has come from the web server
TickOrderWithoutSetParams ==
    web.lastOp # "SetParams" => Cex_C9_TickOrder

-----------------------------------------------------------------------------
(* Properties of the history rings.                                        *)

RingStep(old, new, capacity) ==
    \E v \in 0..One :
        new = IF Len(old) = capacity
              THEN [i \in 1..capacity |-> IF i < capacity THEN old[i + 1] ELSE v]
              ELSE Append(old, v)

\* C10: the bass ring never holds more than max(24, historySize/2) entries and the
\* energy ring never more than historySize; a push onto a full ring evicts exactly
\* the oldest entry and keeps the others in arrival order.
Thm_C10_RingBounds ==
    /\ [](Len(an.bassHistory) <= max(MinBassHistory, an.historySize \div 2))
    /\ [](Len(an.energyHist) <= an.historySize)
    /\ [][(calls' = calls + 1 /\ lastIn'.blk.n # 0) =>
            /\ RingStep(an.bassHistory, an'.bassHistory,
                        max(MinBassHistory, an.historySize \div 2))
            /\ an'.bassHistory[Len(an'.bassHistory)] = lastIn'.blk.bass
            /\ RingStep(an.energyHist, an'.energyHist, an.historySize)]_vars

\* both rings are full and have evicted, and the bass ring holds distinct entries
Wit_C10_Evicted ==
    /\ Len(an.bassHistory) = max(MinBassHistory, an.historySize \div 2)
    /\ Len(an.energyHist) = an.historySize
    /\ calls > Len(an.bassHistory) + MaxVaried
    /\ \E i, j \in 1..Len(an.bassHistory) : an.bassHistory[i] # an.bassHistory[j]

-----------------------------------------------------------------------------
(* Properties of the auto-randomizer.                                      *)

\* the check at the end of a tick randomizes exactly when auto-randomize is on
\* and the interval has passed since the last randomization
AutoRandomizeTiming ==
    auto.check.op = "tick" =>
        (auto.check.randomized <=>
            (auto.check.enabled /\ auto.check.since >= auto.check.interval))

\* C21: with auto-randomize on and interval T the visuals are randomized on
\* the first tick at which T has passed since the last randomization, automatic
\* or manual, and the pattern is then a different one; there is no automatic
\* randomization before T has passed and none while auto-randomize is off.
Cex_C21_AutoRandomizeChangesPattern ==
    auto.check.op = "tick" =>
        /\ (auto.check.enabled /\ auto.check.since >= auto.check.interval) =>
                /\ auto.check.randomized
                /\ auto.renderer.patternName # auto.check.before
        /\ auto.check.randomized =>
                (auto.check.enabled /\ auto.check.since >= auto.check.interval)

\* an automatic randomization after which the renderer draws the same registered
\* pattern as before
Wit_C21_SamePatternPicked ==
    /\ auto.check.op = "tick"
    /\ auto.check.randomized
    /\ auto.check.before \in PatternNames
    /\ auto.renderer.patternName = auto.check.before
    /\ auto.Pattern = auto.check.before

-----------------------------------------------------------------------------
(* Properties of audio.Initialize and audio.Terminate.                     *)

\* portaudio.Initialize runs at most once and every Initialize call returns its
\* result; portaudio.Terminate runs at most once
OnceEach ==
    /\ pa.initRuns <= 1
    /\ pa.termRuns <= 1
    /\ \A p \in CallerIds : \A i \in 1..Len(callers[p].returned) :
            pa.initRuns = 1 /\ callers[p].returned[i] = pa.initResult

\* C22: the PortAudio initialisation runs at most once and every Initialize
\* call returns the result of that run; the PortAudio termination runs at most
\* once, never when the initialisation failed, and only to balance an
\* initialisation that has run: a Terminate before any Initialize does not
\* terminate the library.
Cex_C22_TerminateBalancesInitialize ==
    /\ OnceEach
    /\ pa.termRuns > 0 => (pa.termFound = "up" /\ pa.initResult = NoErr)

\* portaudio.Terminate has run although no Initialize call was ever made; the
\* library is initialised afterwards and the Terminate that follows leaves it up
Wit_C22_TerminatedBeforeInitialize ==
    /\ pa.termRuns = 1
    /\ pa.termFound = "none"
    /\ pa.lib = "up"
    /\ pa.callsLeft = 0
    /\ \A p \in CallerIds : callers[p].pc = "idle"

-----------------------------------------------------------------------------
(* Properties of GateFeatures.                                             *)

\* Bass, Mid, Treble, Overall and BeatStrength are all at or below the floor
AllAtOrBelow(f, floor) ==
    /\ f.Bass <= floor /\ f.Mid <= floor /\ f.Treble <= floor
    /\ f.Overall <= floor /\ f.BeatStrength <= floor

\* C27: with a noise floor in (0,1), Features whose five levels are all at
\* or below the floor are gated to exactly Features{}, the drop flag cleared,
\* so the ApplyFeatures call of that tick takes the silence-decay path; with
\* a floor <= 0 GateFeatures returns the Features unchanged.
Thm_C27_GateIgnoresWeakSignals ==
    /\ (gate.op # "none" /\ gate.floor > 0 /\ gate.floor < One
            /\ AllAtOrBelow(gate.f, gate.floor)) =>
        gate.features = ZeroFeatures
    /\ (gate.op = "step" /\ gate.floor > 0 /\ gate.floor < One
            /\ AllAtOrBelow(gate.f, gate.floor)) =>
        gate.params = UpdateTime(applySilenceDecay(gate.before, gate.dt), gate.dt)
    /\ (gate.op # "none" /\ gate.floor <= 0) => gate.features = gate.f

\* a tick whose Features carried the drop flag and levels below the floor:
\* the Parameters, driven by louder ticks before, decayed as in silence
Wit_C27_WeakDropGated ==
    /\ gate.op = "step"
    /\ gate.floor = 200
    /\ gate.f.IsDrop
    /\ gate.f.Bass = 50
    /\ AllAtOrBelow(gate.f, gate.floor)
    /\ gate.before # Defaults
    /\ gate.params # UpdateTime(ApplyFeatures(gate.before, gate.f, gate.dt), gate.dt)

-----------------------------------------------------------------------------
(* Properties of the frame stride.                                         *)

\* a tick of App.step
PaceTick == pace'.ticks = pace.ticks + 1

\* C30: with a frame stride S > 1 every tick runs ApplyFeatures and
\* UpdateTime, but Render and the presentation run on exactly one tick out of
\* every S consecutive ticks, the S-th, and the skip counter stays within
\* 0..S-1; with S <= 1 every tick renders.
Thm_C30_FrameStride ==
    [][/\ PaceTick =>
            pace'.params = UpdateTime(ApplyFeatures(pace.params, pace'.features, pace'.dt),
                                      pace'.dt)
       /\ (PaceTick /\ pace.cfgFrameStride > 1) =>
            /\ (pace'.renders = pace.renders + 1) <=> (pace'.ticks % pace.cfgFrameStride = 0)
            /\ pace'.renders \in {pace.renders, pace.renders + 1}
            /\ pace'.skipCounter \in 0..(pace.cfgFrameStride - 1)
            /\ pace'.skipCounter = pace'.ticks % pace.cfgFrameStride
       /\ (PaceTick /\ pace.cfgFrameStride <= 1) =>
            (pace'.renders = pace.renders + 1 /\ pace'.renderedAt = pace'.ticks)
       /\ (pace.pc = "present" /\ pace'.pc # "present") =>
            (pace'.presents = pace'.renders /\ pace'.renderedAt = pace'.ticks)
       /\ pace'.pc = "present" =>
            (pace'.shown = pace'.params /\ pace'.renderedAt = pace'.ticks)]_vars

\* stride 3: the sixth tick has rendered, for the second time, with
\* Parameters that music has driven
Wit_C30_SecondRenderOfStrideThree ==
    /\ pace.cfgFrameStride = 3
    /\ pace.ticks = 6
    /\ pace.renders = 2
    /\ pace.presents = 2
    /\ pace.renderedAt = 6
    /\ pace.skipCounter = 0
    /\ pace.params.LastEffectTime # Defaults.LastEffectTime

=============================================================================
